---- MODULE Spec2Model ----
(***************************************************************************)
(* The update-dispatch pipeline of ferogram: Dispatcher::handle_update,    *)
(* Router::handle_update, Handler::check, MiddlewareStack and the          *)
(* dependency Injector, as one state machine that dispatches one update.   *)
(*                                                                         *)
(* The dispatcher, its routers and their middleware stacks are built once  *)
(* and read-only afterwards.  A handler is visited at most once per        *)
(* dispatch, so its fields (update-type guard, filter, endpoint, error     *)
(* handler) and what its user-supplied functions return are drawn when the *)
(* traversal reaches it.  A before-hook is called once per visited handler,*)
(* so its behaviour is part of the configuration (mwKind).                 *)
(***************************************************************************)
EXTENDS Integers, Sequences, FiniteSets, TLC

VARIABLES
    update,           \* the update being dispatched: [kind, sender]
    allow_from_self,  \* Dispatcher.allow_from_self
    mwKind,           \* what each before-hook returns ("Continue" or "Break")
    injector,         \* Dispatcher.injector, the global injector
    cache,            \* Cache: the chat ids saved
    upd_sender,       \* the broadcast channel: [receivers, sent]
    pc,               \* where the dispatch is
    next_router,      \* how many of routers ++ plugins the dispatcher has called
    stack,            \* the Router::handle_update calls in progress
    inj,              \* the per-update injector
    middleware_flow,  \* the flow handle_before returned for the current handler
    flow,             \* the flow of the current handler (check + middleware)
    handler,          \* the handler the loop of Router::handle_update is at
    ret,              \* the value the last Router::handle_update returned
    error,            \* the error carried by ret = "Err"
    result,           \* what Dispatcher::handle_update returned
    trace,            \* the calls made so far, in order
    username,         \* Command.username, the cell the clones of a filter share
    lock,             \* who holds the mutex of Command.username ("free" if nobody)
    checker,          \* each holder of the Command filter: where its check is
    tasks,            \* the tasks Client::run spawned, one per update fetched
    reports,          \* the errors reported so far, in order
    global_err_handler, \* whether Client.err_handler, the global error handler, is set
    chats,            \* InnerCache.chats: the identity saved for each chat id
    rwlock,           \* who holds Cache.inner for writing ("free" if nobody)
    callers,          \* each task that calls the cache: where its call is
    cache_log         \* the cache calls that returned or panicked, in order

\* The state of the Command filter shared by its clones.
cmdVars == <<username, lock, checker>>

\* The state of the update loop of Client::run.
runVars == <<tasks, reports, global_err_handler>>

\* The state of the cache the update tasks share.
cacheVars == <<chats, rwlock, callers, cache_log>>

vars == <<update, allow_from_self, mwKind, injector, cache, upd_sender, pc,
          next_router, stack, inj, middleware_flow, flow, handler, ret, error,
          result, trace, cmdVars, runVars, cacheVars>>

\* The tasks that call the cache.
CacheTasks == {"t1", "t2"}

\* A task that is in no call of the cache; calls counts the calls it made.
NoCall == [at |-> "idle", chat |-> <<"None">>, exists |-> FALSE, calls |-> 0]

\* InnerCache::default
NoChats == [x \in {} |-> ""]

---------------------------------------------------------------------------
(* The dispatcher that was built.                                          *)

\* Dispatcher.routers, in registration order.
Routers == <<"r1", "r2">>

\* Dispatcher.plugins, in registration order (each stands for plugin.router).
Plugins == <<"p1">>

\* Router.routers of each router, in registration order.  The field is
\* pub(crate): Router::router merges the handlers of the router it is given
\* into self.handlers, so only code of the crate fills it.
SubRouters(r) == IF r = "r1" THEN <<"r1a", "r1b">> ELSE <<>>

\* Router.handlers: every router holds this many handlers.
NumHandlers == 2

AllRouters == {"r1", "r1a", "r1b", "r2", "p1"}

\* MiddlewareStack.before of the dispatcher ("d") and of each router.
BeforeHooks(o) ==
    CASE o = "d" -> <<"d.before">>
      [] o = "r1" -> <<"r1.before">>
      [] o = "r1a" -> <<"r1a.before">>
      [] OTHER -> <<>>

\* MiddlewareStack.after of the dispatcher ("d") and of each router.
AfterHooks(o) ==
    CASE o = "d" -> <<"d.after">>
      [] o = "r1" -> <<"r1.after">>
      [] o = "r1a" -> <<"r1a.after">>
      [] OTHER -> <<>>

AllBeforeHooks == {"d.before", "r1.before", "r1a.before"}

MiddlewareStack(o) == [after |-> AfterHooks(o), before |-> BeforeHooks(o)]

\* Mutant: extend puts the other stack's hooks in front of the stack's own.
StackExtend_OtherFirst(self, other) ==
    [after |-> other.after \o self.after, before |-> other.before \o self.before]

\* MiddlewareStack::extend
StackExtend(self, other) ==
    [after |-> self.after \o other.after, before |-> self.before \o other.before]

---------------------------------------------------------------------------
(* Updates and handlers.                                                   *)

UpdateType ==
    {"NewMessage", "MessageEdited", "MessageDeleted", "CallbackQuery",
     "InlineQuery", "InlineSend", "Raw"}

\* sender: "self" is the client's own account, "other" another user, "none"
\* no user (no sender, or a group or channel as sender).
Updates ==
    [kind : {"NewMessage", "MessageEdited", "CallbackQuery"},
     sender : {"self", "other", "none"}]
    \cup [kind : {"InlineQuery", "InlineSend"}, sender : {"self", "other"}]
    \cup [kind : {"MessageDeleted", "Raw"}, sender : {"none"}]

\* The parameter lists of the endpoints.
Signatures ==
    {<<>>, <<"Update">>, <<"Foo">>, <<"Update", "Foo">>, <<"Foo", "Update">>}

\* Handler.endpoint = None
NoEndpoint == <<"None">>

\* What the constructors of handler.rs build.  filter says whether the
\* handler has a filter, endpoint is the parameter list of its endpoint,
\* err_handler says whether on_err was called.  handler::then has no filter,
\* the Raw guard and an endpoint; no constructor builds an InlineSend guard.
Handlers ==
    [update_type : {"NewMessage", "Raw", "MessageEdited", "MessageDeleted",
                    "CallbackQuery", "InlineQuery"},
     filter : {TRUE},
     endpoint : Signatures \cup {NoEndpoint},
     err_handler : BOOLEAN]
    \cup [update_type : {"Raw"}, filter : {FALSE}, endpoint : Signatures,
          err_handler : BOOLEAN]

NoHandler ==
    [update_type |-> "None", filter |-> FALSE, endpoint |-> NoEndpoint,
     err_handler |-> FALSE]

\* impl PartialEq<Update> for UpdateType
UpdateTypeEq(update_type, upd) == update_type = upd.kind

---------------------------------------------------------------------------
(* Injector: a map from a type to the queue of its values.                 *)

EmptyInjector == [t \in {} |-> <<>>]

Queue(i, t) == IF t \in DOMAIN i THEN i[t] ELSE <<>>

\* Injector::insert
Insert(i, t, v) ==
    [x \in DOMAIN i \cup {t} |-> IF x = t THEN Append(Queue(i, t), v) ELSE i[x]]

\* Mutant: the queue of other replaces the queue of self (HashMap::extend).
Extend_Overwrites(self, other) ==
    [x \in DOMAIN self \cup DOMAIN other |->
        IF x \in DOMAIN other THEN other[x] ELSE self[x]]

\* Injector::extend, the value of self afterwards (other is left drained).
Extend(self, other) ==
    [x \in DOMAIN self \cup DOMAIN other |-> Queue(self, x) \o Queue(other, x)]

\* Injector::take: "None" for a type never inserted, the oldest value
\* otherwise; the entry of a type stays when its queue empties, and
\* pop_front().unwrap() on it panics.
Take(i, t) ==
    IF t \notin DOMAIN i
    THEN [res |-> "None", value |-> "", inj |-> i]
    ELSE IF i[t] = <<>>
         THEN [res |-> "panic", value |-> "", inj |-> i]
         ELSE [res |-> "Some", value |-> Head(i[t]),
               inj |-> [i EXCEPT ![t] = Tail(@)]]

---------------------------------------------------------------------------
(* Flow.                                                                   *)

\* flow::break_now
break_now == [action |-> "Break", injector |-> EmptyInjector]

\* flow::continue_now
continue_now == [action |-> "Continue", injector |-> EmptyInjector]

\* flow::continue_with
continue_with(t, v) ==
    [action |-> "Continue", injector |-> Insert(EmptyInjector, t, v)]

NoFlow == [action |-> "None", injector |-> EmptyInjector]

\* What a filter of a handler may return on the update.
FilterFlows == {break_now, continue_now, continue_with("Foo", "filter")}

\* What an error handler may return.
ErrorHandlerFlows == {break_now, continue_now, continue_with("Foo", "on_err")}

---------------------------------------------------------------------------
(* Endpoints (di.rs).                                                      *)

\* The takes of HandlerFunc::handle, one parameter after the other.
RECURSIVE Resolve(_, _)
Resolve(params, i) ==
    IF params = <<>>
    THEN [res |-> "Resolved", inj |-> i]
    ELSE LET t == Take(i, Head(params)) IN
         CASE t.res = "None" -> [res |-> "Missing", inj |-> t.inj]
           [] t.res = "panic" -> [res |-> "panic", inj |-> t.inj]
           [] OTHER -> Resolve(Tail(params), t.inj)

\* Mutant: the values taken are put back when a later parameter is missing.
Handle_PutsBack(params, i, body) ==
    LET r == Resolve(params, i) IN
    [out |-> IF r.res = "Resolved" THEN body ELSE r.res,
     called |-> r.res = "Resolved",
     inj |-> IF r.res = "Missing" THEN i ELSE r.inj]

\* HandlerFunc::handle: body is what the endpoint function returns if called.
Handle(params, i, body) ==
    LET r == Resolve(params, i) IN
    [out |-> IF r.res = "Resolved" THEN body ELSE r.res,
     called |-> r.res = "Resolved",
     inj |-> r.inj]

\* The type of the payload that Router::handle_update inserts for an update.
PayloadType(upd) ==
    CASE upd.kind \in {"NewMessage", "MessageEdited"} -> "Message"
      [] upd.kind = "MessageDeleted" -> "MessageDeletion"
      [] OTHER -> upd.kind

---------------------------------------------------------------------------
(* Middleware stacks.                                                      *)

\* What a before-hook returns: a flow without injected values.
HookFlow(kind) == IF kind = "Break" THEN break_now ELSE continue_now

\* The loop of MiddlewareStack::handle_before: `f` is the flow so far and
\* `run` the hooks called so far.
RECURSIVE BeforeLoop(_, _, _, _)
BeforeLoop(before, kinds, f, run) ==
    IF before = <<>>
    THEN [flow |-> f, run |-> run]
    ELSE LET m == Head(before)
             mf == HookFlow(kinds[m])
         IN IF mf.action = "Break"
            THEN [flow |-> mf, run |-> Append(run, m)]
            ELSE BeforeLoop(Tail(before), kinds, mf, Append(run, m))

\* Mutant: every hook is called and the flow of the last one returned.
HandleBefore_RunsAll(before, kinds) ==
    [flow |-> IF before = <<>> THEN continue_now
              ELSE HookFlow(kinds[before[Len(before)]]),
     run |-> before]

\* MiddlewareStack::handle_before
HandleBefore(before, kinds) == BeforeLoop(before, kinds, continue_now, <<>>)

\* Mutant: an after-hook that breaks does not end the loop.
HandleAfter_RunsAll(after, outs) == after

\* MiddlewareStack::handle_after: the hooks called, given what each returns.
RECURSIVE HandleAfter(_, _)
HandleAfter(after, outs) ==
    IF after = <<>>
    THEN <<>>
    ELSE IF outs[Head(after)] = "Break"
         THEN <<Head(after)>>
         ELSE <<Head(after)>> \o HandleAfter(Tail(after), outs)

---------------------------------------------------------------------------
(* The calls recorded in trace.                                            *)

\* ev is the call: "enter" (Router::handle_update is called on r), "before"
\* and "after" (hook id is called for handler h of r and returns out), "check"
\* (Handler::check of handler h), "endpoint" (the endpoint of handler h is
\* called and ends with out; id says whether the handler has an error
\* handler), "on_err" (its error handler returns the flow out, injecting the
\* type id), "return" (Router::handle_update of r returns out).
Event(ev, r, h, id, out) == [ev |-> ev, r |-> r, h |-> h, id |-> id, out |-> out]

Return(r, out) == Event("return", r, 0, "", out)

EndpointEvent(r, h, hd, out) ==
    Event("endpoint", r, h, IF hd.err_handler THEN "on_err" ELSE "", out)

\* One "before" (or "after") event per hook called for handler h of router r.
HookEvents(ev, r, h, run, outs) ==
    [k \in 1..Len(run) |-> Event(ev, r, h, run[k], outs[run[k]])]

Top == stack[Len(stack)]

Pop == SubSeq(stack, 1, Len(stack) - 1)

Frame(r, middlewares) == [r |-> r, h |-> 0, s |-> 0, middlewares |-> middlewares]

NoError == [kind |-> "none", r |-> "", h |-> 0, attempt |-> 0]

---------------------------------------------------------------------------
(* Dispatcher::handle_update                                               *)

\* Dispatcher.injector as Dispatcher::resources and Dispatcher::dependencies
\* built it: empty, or holding two values of type Foo.
GlobalInjectors ==
    {EmptyInjector, Insert(Insert(EmptyInjector, "Foo", "g1"), "Foo", "g2")}

\* The holders of one Command filter: the filter and a clone of it.
Checkers == {"filter", "clone"}

Init ==
    /\ update \in Updates
    /\ allow_from_self \in BOOLEAN
    /\ mwKind \in [AllBeforeHooks -> {"Continue", "Break"}]
    /\ injector \in GlobalInjectors
    /\ cache = {}
    /\ upd_sender = [receivers |-> 0, sent |-> <<>>]
    /\ pc = "start"
    /\ next_router = 0
    /\ stack = <<>>
    /\ inj = EmptyInjector
    /\ middleware_flow = NoFlow
    /\ flow = NoFlow
    /\ handler = NoHandler
    /\ ret = "none"
    /\ error = NoError
    /\ result = "none"
    /\ trace = <<>>
    /\ username = <<"None">>
    /\ lock = "free"
    /\ checker = [k \in Checkers |-> "idle"]
    /\ tasks = <<>>
    /\ reports = <<>>
    /\ global_err_handler = FALSE
    /\ chats = NoChats
    /\ rwlock = "free"
    /\ callers = [t \in CacheTasks |-> NoCall]
    /\ cache_log = <<>>

\* dispatcher.rs 183-195: the per-update injector and the broadcast.
BuildInjector(global) ==
    Extend(Insert(Insert(Insert(EmptyInjector, "Context", "context"),
                         "Client", "client"),
                  "Update", "update"),
           global)

\* Mutant: the global injector itself is drained into the per-update one.
GlobalAfterBuild_Drained(global) == EmptyInjector

\* dispatcher.rs 195: extend drains the clone, self.injector is left as it is.
GlobalAfterBuild(global) == global

\* Mutant: the context does not subscribe to the channel.
Subscribe_Nothing(ch) == ch

\* dispatcher.rs 185-186: the context of the update holds a new receiver.
Subscribe(ch) == [ch EXCEPT !.receivers = @ + 1]

\* dispatcher.rs 189-191: Sender::send fails when the channel has no
\* receiver, and expect panics on the failure.
Send(ch, upd) ==
    IF ch.receivers = 0
    THEN [ok |-> FALSE, ch |-> ch]
    ELSE [ok |-> TRUE, ch |-> [ch EXCEPT !.sent = Append(@, upd.kind)]]

DispatcherStart ==
    /\ pc = "start"
    /\ LET s == Send(Subscribe(upd_sender), update) IN
         /\ upd_sender' = s.ch
         /\ IF s.ok
            THEN /\ inj' = BuildInjector(injector)
                 /\ injector' = GlobalAfterBuild(injector)
                 /\ pc' = "self_filter"
                 /\ UNCHANGED result
            ELSE /\ inj' = Insert(EmptyInjector, "Context", "context")
                 /\ pc' = "done"
                 /\ result' = "panic"
                 /\ UNCHANGED injector
    /\ UNCHANGED <<update, allow_from_self, mwKind, cache, next_router,
                   stack, middleware_flow, flow, handler, ret, error, trace>>
    /\ UNCHANGED <<cmdVars, runVars, cacheVars>>

\* dispatcher.rs 197-236: the chats saved for an update.
SavedChats(upd) ==
    (IF upd.kind \in {"NewMessage", "MessageEdited"} THEN {"chat"} ELSE {})
    \cup (IF upd.kind \in {"NewMessage", "MessageEdited", "CallbackQuery",
                           "InlineQuery", "InlineSend"}
             /\ upd.sender # "none"
          THEN {upd.sender} ELSE {})

\* Mutant: the callback queries of the client's own account are not dropped.
FromSelfDropped_NotCallback(upd, allow) ==
    CASE upd.kind \in {"NewMessage", "MessageEdited", "InlineQuery"} ->
            ~allow /\ upd.sender = "self"
      [] upd.kind = "InlineSend" -> upd.sender = "self"
      [] OTHER -> FALSE

\* dispatcher.rs 197-236: whether the update is dropped as the client's own.
FromSelfDropped(upd, allow) ==
    CASE upd.kind \in {"NewMessage", "MessageEdited", "CallbackQuery", "InlineQuery"} ->
            ~allow /\ upd.sender = "self"
      [] upd.kind = "InlineSend" -> upd.sender = "self"
      [] OTHER -> FALSE

SelfFilter ==
    /\ pc = "self_filter"
    /\ cache' = cache \cup SavedChats(update)
    /\ IF FromSelfDropped(update, allow_from_self)
       THEN pc' = "done" /\ result' = "Ok"
       ELSE pc' = "dispatch" /\ result' = result
    /\ UNCHANGED <<update, allow_from_self, mwKind, injector, upd_sender,
                   next_router, stack, inj, middleware_flow, flow, handler, ret,
                   error, trace>>
    /\ UNCHANGED <<cmdVars, runVars, cacheVars>>

\* dispatcher.rs 238-241: the next top-level router is called.
DispatchRouter ==
    /\ pc = "dispatch"
    /\ next_router < Len(Routers)
    /\ stack' = <<Frame(Routers[next_router + 1], MiddlewareStack("d"))>>
    /\ next_router' = next_router + 1
    /\ pc' = "enter"
    /\ UNCHANGED <<update, allow_from_self, mwKind, injector, cache, upd_sender,
                   inj, middleware_flow, flow, handler, ret, error, result, trace>>
    /\ UNCHANGED <<cmdVars, runVars, cacheVars>>

\* dispatcher.rs 249-253: the routers done, the next plugin's router is called.
DispatchPlugin ==
    /\ pc = "dispatch"
    /\ next_router >= Len(Routers)
    /\ next_router < Len(Routers) + Len(Plugins)
    /\ stack' = <<Frame(Plugins[next_router - Len(Routers) + 1], MiddlewareStack("d"))>>
    /\ next_router' = next_router + 1
    /\ pc' = "enter"
    /\ UNCHANGED <<update, allow_from_self, mwKind, injector, cache, upd_sender,
                   inj, middleware_flow, flow, handler, ret, error, result, trace>>
    /\ UNCHANGED <<cmdVars, runVars, cacheVars>>

\* Mutant: the dispatcher goes on to the next router after Ok(true).
DispatcherMatch_KeepsGoing(r) ==
    CASE r \in {"Ok(false)", "Ok(true)"} -> [pc |-> "dispatch", result |-> "none"]
      [] OTHER -> [pc |-> "done", result |-> "Err"]

\* Mutant: the dispatcher takes an update a router did not handle for an error.
DispatcherMatch_UnhandledIsError(r) ==
    CASE r = "Ok(true)" -> [pc |-> "done", result |-> "Ok"]
      [] OTHER -> [pc |-> "done", result |-> "Err"]

\* dispatcher.rs 243-245 and 255-257: what the dispatcher does with the value
\* a router returned.
DispatcherMatch(r) ==
    CASE r = "Ok(false)" -> [pc |-> "dispatch", result |-> "none"]
      [] r = "Ok(true)" -> [pc |-> "done", result |-> "Ok"]
      [] OTHER -> [pc |-> "done", result |-> "Err"]

DispatcherReturned ==
    /\ pc = "returned"
    /\ stack = <<>>
    /\ pc' = DispatcherMatch(ret).pc
    /\ result' = DispatcherMatch(ret).result
    /\ UNCHANGED <<update, allow_from_self, mwKind, injector, cache, upd_sender,
                   next_router, stack, inj, middleware_flow, flow, handler, ret,
                   error, trace>>
    /\ UNCHANGED <<cmdVars, runVars, cacheVars>>

\* dispatcher.rs 261: no router and no plugin handled the update.
DispatcherUnhandled ==
    /\ pc = "dispatch"
    /\ next_router = Len(Routers) + Len(Plugins)
    /\ pc' = "done"
    /\ result' = "Ok"
    /\ UNCHANGED <<update, allow_from_self, mwKind, injector, cache, upd_sender,
                   next_router, stack, inj, middleware_flow, flow, handler, ret,
                   error, trace>>
    /\ UNCHANGED <<cmdVars, runVars, cacheVars>>

---------------------------------------------------------------------------
(* Router::handle_update                                                   *)

\* router.rs 115-122: the inherited stack is extended by the router's own.
RouterEnter ==
    /\ pc = "enter"
    /\ stack' = [stack EXCEPT ![Len(stack)].middlewares =
                     StackExtend(@, MiddlewareStack(Top.r))]
    /\ trace' = Append(trace, Event("enter", Top.r, 0, "", ""))
    /\ pc' = "handlers"
    /\ UNCHANGED <<update, allow_from_self, mwKind, injector, cache, upd_sender,
                   next_router, inj, middleware_flow, flow, handler, ret, error,
                   result>>
    /\ UNCHANGED <<cmdVars, runVars, cacheVars>>

\* router.rs 124-126: the next handler of the loop and its before-hooks.
RouterBefore ==
    /\ pc = "handlers"
    /\ Top.h < NumHandlers
    /\ LET b == HandleBefore(Top.middlewares.before, mwKind) IN
         /\ trace' = trace \o HookEvents("before", Top.r, Top.h + 1, b.run, mwKind)
         /\ stack' = [stack EXCEPT ![Len(stack)].h = @ + 1]
         /\ IF b.flow.action = "Continue"
            THEN pc' = "check" /\ middleware_flow' = b.flow
            ELSE pc' = "handlers" /\ middleware_flow' = NoFlow
    /\ UNCHANGED <<update, allow_from_self, mwKind, injector, cache, upd_sender,
                   next_router, inj, flow, handler, ret, error, result>>
    /\ UNCHANGED <<cmdVars, runVars, cacheVars>>

\* Mutant: the guard of the handler is not compared with the update.
Check_IgnoresGuard(h, upd, filter_flow) ==
    IF h.filter THEN filter_flow ELSE continue_now

\* Handler::check (handler.rs 119-129): filter_flow is what the filter
\* of the handler returns on the update, if the handler has one.
Check(h, upd, filter_flow) ==
    IF UpdateTypeEq(h.update_type, upd)
    THEN IF h.filter THEN filter_flow ELSE continue_now
    ELSE break_now

\* router.rs 127-128: the handler is checked and the injector of the
\* middleware flow is moved into the flow.
HandlerCheck ==
    /\ pc = "check"
    /\ \E h \in Handlers, filter_flow \in FilterFlows :
         LET f == Check(h, update, filter_flow) IN
         /\ handler' = h
         /\ flow' = [action |-> f.action,
                     injector |-> Extend(f.injector, middleware_flow.injector)]
    /\ middleware_flow' = NoFlow
    /\ trace' = Append(trace, Event("check", Top.r, Top.h, "", ""))
    /\ pc' = "checked"
    /\ UNCHANGED <<update, allow_from_self, mwKind, injector, cache, upd_sender,
                   next_router, stack, inj, ret, error, result>>
    /\ UNCHANGED <<cmdVars, runVars, cacheVars>>

\* router.rs 130: the flow breaks, the loop goes to the next handler.
HandlerBreak ==
    /\ pc = "checked"
    /\ flow.action = "Break"
    /\ flow' = NoFlow
    /\ handler' = NoHandler
    /\ pc' = "handlers"
    /\ UNCHANGED <<update, allow_from_self, mwKind, injector, cache, upd_sender,
                   next_router, stack, inj, middleware_flow, ret, error, result,
                   trace>>
    /\ UNCHANGED <<cmdVars, runVars, cacheVars>>

\* Mutant: the values of the flow are moved into the injector although the
\* handler has no endpoint.
SkippedInjector_Extended(i, f) == Extend(i, f.injector)

\* router.rs 130-131: without an endpoint the body of `if let Some(endpoint)`
\* is skipped and the injector of the update is left as it was.
SkippedInjector(i, f) == i

\* router.rs 130-131: the flow continues and the handler has no endpoint.
HandlerNoEndpoint ==
    /\ pc = "checked"
    /\ flow.action = "Continue"
    /\ handler.endpoint = NoEndpoint
    /\ inj' = SkippedInjector(inj, flow)
    /\ flow' = NoFlow
    /\ handler' = NoHandler
    /\ pc' = "handlers"
    /\ UNCHANGED <<update, allow_from_self, mwKind, injector, cache, upd_sender,
                   next_router, stack, middleware_flow, ret, error, result,
                   trace>>
    /\ UNCHANGED <<cmdVars, runVars, cacheVars>>

\* Mutant: the payload of the update is not inserted.
EndpointInjector_NoPayload(i, f, upd) == Extend(i, f.injector)

\* Mutant: the payload is inserted before the values of the flow are moved in.
EndpointInjector_PayloadFirst(i, f, upd) ==
    Extend(Insert(i, PayloadType(upd), "payload"), f.injector)

\* router.rs 132-147: the injector the endpoint is called with.
EndpointInjector(i, f, upd) ==
    Insert(Extend(i, f.injector), PayloadType(upd), "payload")

\* router.rs 130-147: the flow continues and the handler has an endpoint.
HandlerMatched ==
    /\ pc = "checked"
    /\ flow.action = "Continue"
    /\ handler.endpoint # NoEndpoint
    /\ inj' = EndpointInjector(inj, flow, update)
    /\ flow' = NoFlow
    /\ pc' = "endpoint"
    /\ UNCHANGED <<update, allow_from_self, mwKind, injector, cache, upd_sender,
                   next_router, stack, middleware_flow, handler, ret, error,
                   result, trace>>
    /\ UNCHANGED <<cmdVars, runVars, cacheVars>>

\* router.rs 149-173: what follows the first call of the endpoint, given its
\* outcome and whether the handler has an error handler.
AfterEndpoint(out, err_handler) ==
    CASE out = "Ok" -> "after"
      [] out = "panic" -> "panic"
      [] err_handler -> "err_handler"
      [] OTHER -> "return Err"

\* router.rs 149: the endpoint is called.
EndpointHandle ==
    /\ pc = "endpoint"
    /\ \E body \in {"Ok", "Err"} :
         LET e == Handle(handler.endpoint, inj, body)
             to == AfterEndpoint(e.out, handler.err_handler)
         IN /\ inj' = e.inj
            /\ trace' = Append(trace, EndpointEvent(Top.r, Top.h, handler, e.out))
                         \o (IF to = "return Err" THEN <<Return(Top.r, "Err")>> ELSE <<>>)
            /\ error' = IF e.out \in {"Err", "Missing"}
                        THEN [kind |-> e.out, r |-> Top.r, h |-> Top.h, attempt |-> 1]
                        ELSE error
            /\ CASE to = "after" ->
                      pc' = "after" /\ UNCHANGED <<stack, ret, result>>
                 [] to = "err_handler" ->
                      pc' = "err_handler" /\ UNCHANGED <<stack, ret, result>>
                 [] to = "return Err" ->
                      pc' = "returned" /\ stack' = Pop /\ ret' = "Err"
                      /\ UNCHANGED result
                 [] OTHER ->
                      pc' = "done" /\ result' = "panic" /\ UNCHANGED <<stack, ret>>
    /\ UNCHANGED <<update, allow_from_self, mwKind, injector, cache, upd_sender,
                   next_router, middleware_flow, flow, handler>>
    /\ UNCHANGED <<cmdVars, runVars, cacheVars>>

\* router.rs 150-155: the after-hooks, then Ok(true).
RouterAfter ==
    /\ pc = "after"
    /\ \E outs \in [{"d.after", "r1.after", "r1a.after"} -> {"Continue", "Break"}] :
         trace' = trace \o HookEvents("after", Top.r, Top.h,
                                      HandleAfter(Top.middlewares.after, outs), outs)
                        \o <<Return(Top.r, "Ok(true)")>>
    /\ stack' = Pop
    /\ ret' = "Ok(true)"
    /\ pc' = "returned"
    /\ UNCHANGED <<update, allow_from_self, mwKind, injector, cache, upd_sender,
                   next_router, inj, middleware_flow, flow, handler, error, result>>
    /\ UNCHANGED <<cmdVars, runVars, cacheVars>>

\* Mutant: the endpoint is called again whatever the error handler returns.
AfterErrorHandler_AlwaysRetry(f) == "retry"

\* router.rs 162-169: what follows the flow of the error handler.
AfterErrorHandler(f) == IF f.action = "Continue" THEN "retry" ELSE "return Ok(true)"

\* router.rs 158-169: the error handler of the handler is run on the error.
ErrorHandlerRun ==
    /\ pc = "err_handler"
    /\ \E f \in ErrorHandlerFlows :
         /\ trace' = Append(trace, Event("on_err", Top.r, Top.h,
                                         IF "Foo" \in DOMAIN f.injector THEN "Foo" ELSE "",
                                         f.action))
                      \o (IF AfterErrorHandler(f) = "retry" THEN <<>>
                          ELSE <<Return(Top.r, "Ok(true)")>>)
         /\ IF AfterErrorHandler(f) = "retry"
            THEN /\ inj' = Extend(inj, f.injector)
                 /\ pc' = "retry"
                 /\ UNCHANGED <<stack, ret>>
            ELSE /\ pc' = "returned"
                 /\ stack' = Pop
                 /\ ret' = "Ok(true)"
                 /\ UNCHANGED inj
    /\ error' = NoError
    /\ UNCHANGED <<update, allow_from_self, mwKind, injector, cache, upd_sender,
                   next_router, middleware_flow, flow, handler, result>>
    /\ UNCHANGED <<cmdVars, runVars, cacheVars>>

\* Mutant: the error of the second call is dropped.
RetryResult_AlwaysHandled(out) == "Ok(true)"

\* router.rs 166: endpoint.handle(injector).await.map(|_| true)
RetryResult(out) == IF out = "Ok" THEN "Ok(true)" ELSE "Err"

\* router.rs 166: the endpoint is called again and its outcome returned.
EndpointRetry ==
    /\ pc = "retry"
    /\ \E body \in {"Ok", "Err"} :
         LET e == Handle(handler.endpoint, inj, body) IN
            /\ inj' = e.inj
            /\ trace' = Append(trace, EndpointEvent(Top.r, Top.h, handler, e.out))
                         \o (IF e.out = "panic" THEN <<>>
                             ELSE <<Return(Top.r, RetryResult(e.out))>>)
            /\ IF e.out = "panic"
               THEN pc' = "done" /\ result' = "panic" /\ UNCHANGED <<stack, ret, error>>
               ELSE /\ pc' = "returned"
                    /\ stack' = Pop
                    /\ ret' = RetryResult(e.out)
                    /\ error' = IF e.out = "Ok" THEN error
                                ELSE [kind |-> e.out, r |-> Top.r, h |-> Top.h,
                                      attempt |-> 2]
                    /\ UNCHANGED result
    /\ UNCHANGED <<update, allow_from_self, mwKind, injector, cache, upd_sender,
                   next_router, middleware_flow, flow, handler>>
    /\ UNCHANGED <<cmdVars, runVars, cacheVars>>

\* Mutant: a sub-router is called with an empty stack.
SubRouterStack_Fresh(frame) == [after |-> <<>>, before |-> <<>>]

\* router.rs 182: the stack a sub-router inherits, middlewares.clone().
SubRouterStack(frame) == frame.middlewares

\* router.rs 180-183: the handlers done, the next sub-router is called with
\* a clone of the router's stack.
RouterCallSub ==
    /\ pc = "handlers"
    /\ Top.h = NumHandlers
    /\ Top.s < Len(SubRouters(Top.r))
    /\ stack' = Append([stack EXCEPT ![Len(stack)].s = @ + 1],
                       Frame(SubRouters(Top.r)[Top.s + 1], SubRouterStack(Top)))
    /\ pc' = "enter"
    /\ UNCHANGED <<update, allow_from_self, mwKind, injector, cache, upd_sender,
                   next_router, inj, middleware_flow, flow, handler, ret, error,
                   result, trace>>
    /\ UNCHANGED <<cmdVars, runVars, cacheVars>>

\* Mutant: a router goes on to its next sub-router after an error.
RouterMatch_SwallowsErr(r) == IF r = "Ok(true)" THEN "return" ELSE "continue"

\* Mutant: a router goes on to its next sub-router after Ok(true).
RouterMatch_KeepsGoing(r) == IF r \in {"Ok(false)", "Ok(true)"} THEN "continue" ELSE "return"

\* router.rs 185-187: what a router does with the value a sub-router returned.
RouterMatch(r) == IF r = "Ok(false)" THEN "continue" ELSE "return"

RouterReturned ==
    /\ pc = "returned"
    /\ stack # <<>>
    /\ IF RouterMatch(ret) = "continue"
       THEN pc' = "handlers" /\ UNCHANGED <<stack, trace>>
       ELSE /\ pc' = "returned"
            /\ stack' = Pop
            /\ trace' = Append(trace, Return(Top.r, ret))
    /\ UNCHANGED <<update, allow_from_self, mwKind, injector, cache, upd_sender,
                   next_router, inj, middleware_flow, flow, handler, ret, error,
                   result>>
    /\ UNCHANGED <<cmdVars, runVars, cacheVars>>

\* router.rs 191: no handler and no sub-router handled the update.
RouterUnhandled ==
    /\ pc = "handlers"
    /\ Top.h = NumHandlers
    /\ Top.s = Len(SubRouters(Top.r))
    /\ stack' = Pop
    /\ ret' = "Ok(false)"
    /\ trace' = Append(trace, Return(Top.r, "Ok(false)"))
    /\ pc' = "returned"
    /\ UNCHANGED <<update, allow_from_self, mwKind, injector, cache, upd_sender,
                   next_router, inj, middleware_flow, flow, handler, error, result>>
    /\ UNCHANGED <<cmdVars, runVars, cacheVars>>

---------------------------------------------------------------------------

Next ==
    \/ DispatcherStart
    \/ SelfFilter
    \/ DispatchRouter
    \/ DispatchPlugin
    \/ DispatcherReturned
    \/ DispatcherUnhandled
    \/ RouterEnter
    \/ RouterBefore
    \/ HandlerCheck
    \/ HandlerBreak
    \/ HandlerNoEndpoint
    \/ HandlerMatched
    \/ EndpointHandle
    \/ RouterAfter
    \/ ErrorHandlerRun
    \/ EndpointRetry
    \/ RouterCallSub
    \/ RouterReturned
    \/ RouterUnhandled

Spec == Init /\ [][Next]_vars

---------------------------------------------------------------------------
(* What the claims are stated with.                                        *)

Range(q) == {q[k] : k \in 1..Len(q)}

TopLevel == Routers \o Plugins

\* The routers in document order: a router, then its sub-routers in
\* registration order and depth first, then the routers registered after it.
RECURSIVE Preorder(_)
Preorder(rs) ==
    IF rs = <<>>
    THEN <<>>
    ELSE <<Head(rs)>> \o Preorder(SubRouters(Head(rs))) \o Preorder(Tail(rs))

DocumentOrder == Preorder(TopLevel)

Pos == [r \in AllRouters |-> CHOOSE k \in 1..Len(DocumentOrder) : DocumentOrder[k] = r]

\* The place of handler h of router r in document order.
Key(e) == Pos[e.r] * (NumHandlers + 1) + e.h

ParentOf(r) ==
    IF \E p \in AllRouters : r \in Range(SubRouters(p))
    THEN CHOOSE p \in AllRouters : r \in Range(SubRouters(p))
    ELSE "d"

\* The dispatcher and the routers down to o.
RECURSIVE Chain(_)
Chain(o) == IF o = "d" THEN <<"d">> ELSE Append(Chain(ParentOf(o)), o)

RootOf == [r \in AllRouters |-> Chain(r)[2]]

IsCall(e) == e.ev # "return"

IsCheck(e) == e.ev = "check"

IsEndpoint(e) == e.ev = "endpoint"

IsTopEnter(e) == e.ev = "enter" /\ e.r \in Range(TopLevel)

Calls == SelectSeq(trace, IsCall)

Checks == SelectSeq(trace, IsCheck)

EndpointCalls == SelectSeq(trace, IsEndpoint)

\* Router::handle_update has returned `out` to the dispatcher.
Handled(e) == e.ev = "return" /\ e.r \in Range(TopLevel) /\ e.out = "Ok(true)"

---------------------------------------------------------------------------
(* C1: within one Router::handle_update call the handlers are evaluated in *)
(* registration order, a router's own handlers before its sub-routers and  *)
(* the sub-routers in registration order, depth first; a handler whose     *)
(* guard and filter continue has its endpoint called, and the first        *)
(* endpoint that returns success ends the traversal with "handled": no     *)
(* handler is checked and no endpoint is called after it.                  *)
C1_Order ==
    LET calls == Calls
        checks == Checks
    IN /\ \A k \in 1..(Len(calls) - 1) :
            RootOf[calls[k].r] = RootOf[calls[k + 1].r]
                => Key(calls[k]) <= Key(calls[k + 1])
       /\ \A k \in 1..(Len(checks) - 1) :
            RootOf[checks[k].r] = RootOf[checks[k + 1].r]
                => Key(checks[k]) < Key(checks[k + 1])

C1_FirstSuccessEnds ==
    \A i \in 1..Len(trace) :
        trace[i].ev = "endpoint" /\ trace[i].out = "Ok" =>
            /\ \A j \in (i + 1)..Len(trace) :
                 /\ trace[j].ev \in {"after", "return"}
                 /\ trace[j].ev = "return" => trace[j].out = "Ok(true)"
            /\ pc \in {"after", "returned", "done"}
            /\ pc = "returned" => ret = "Ok(true)"
            /\ pc = "done" => result = "Ok"

C1_EndpointOfMatch ==
    /\ pc = "endpoint" => handler.update_type = update.kind
    /\ LET calls == EndpointCalls IN
       \A k \in 1..(Len(calls) - 1) :
           calls[k].r = calls[k + 1].r /\ calls[k].h = calls[k + 1].h

C1_MatchIsCalled ==
    (pc = "checked" /\ flow.action = "Continue" /\ handler.endpoint # NoEndpoint)
        => pc' = "endpoint"

C1_FirstMatchWins ==
    /\ [](C1_Order /\ C1_FirstSuccessEnds /\ C1_EndpointOfMatch)
    /\ [][C1_MatchIsCalled]_vars

\* The first handler of r1 and both handlers of r1a did not match, the first
\* handler of r1b did and its endpoint succeeded: the update is handled and
\* the second handler of r1b was never checked.
C1_Witness ==
    /\ pc = "done"
    /\ result = "Ok"
    /\ \E i \in 1..Len(trace) :
         /\ trace[i].ev = "endpoint" /\ trace[i].out = "Ok"
         /\ trace[i].r = "r1b" /\ trace[i].h = 1
    /\ \E i \in 1..Len(trace) :
         trace[i].ev = "check" /\ trace[i].r = "r1a" /\ trace[i].h = 2

---------------------------------------------------------------------------
(* C2: Dispatcher::handle_update offers the update to the top-level        *)
(* routers in registration order, then to the plugins' routers in          *)
(* registration order, each after the one before it returned "not          *)
(* handled", and stops at the first that returns "handled".                *)
TopEnters == SelectSeq(trace, IsTopEnter)

C2_DispatchOrder ==
    /\ LET enters == TopEnters IN
         /\ Len(enters) <= Len(TopLevel)
         /\ \A k \in 1..Len(enters) : enters[k].r = TopLevel[k]
    /\ \A i \in 2..Len(trace) :
         IsTopEnter(trace[i]) =>
             /\ trace[i - 1].ev = "return"
             /\ trace[i - 1].out = "Ok(false)"
             /\ trace[i - 1].r \in Range(TopLevel)
    /\ \A i \in 1..Len(trace) :
         Handled(trace[i]) =>
             /\ i = Len(trace)
             /\ pc \in {"returned", "done"}
             /\ pc = "done" => result = "Ok"

\* r1 did not handle the update, r2 did: the plugin is never offered it.
C2_Witness ==
    /\ pc = "done"
    /\ Len(TopEnters) = 2
    /\ Handled(trace[Len(trace)])
    /\ trace[Len(trace)].r = "r2"

---------------------------------------------------------------------------
(* C3: with allow_from_self unset, an update of a kind that carries a      *)
(* sender and whose sender is the client's own account makes               *)
(* Dispatcher::handle_update return success without calling any            *)
(* middleware, filter or endpoint.                                         *)
C3_SelfDropped ==
    (~allow_from_self /\ update.sender = "self") =>
        /\ trace = <<>>
        /\ pc \in {"start", "self_filter", "done"}
        /\ pc = "done" => result = "Ok"

C3_Witness ==
    /\ ~allow_from_self
    /\ update = [kind |-> "CallbackQuery", sender |-> "self"]
    /\ pc = "done"

---------------------------------------------------------------------------
(* C4: with allow_from_self set, an update of the client's own account is  *)
(* not dropped but passed to the routers, for every kind that carries a    *)
(* sender.                                                                 *)
C4_SelfAllowed ==
    (allow_from_self /\ update.sender = "self" /\ pc = "done") => trace # <<>>

---------------------------------------------------------------------------
(* C5: when an endpoint returns an error and its handler has no error      *)
(* handler, Router::handle_update of the router and of every router above  *)
(* it returns that error, Dispatcher::handle_update returns it, and        *)
(* nothing else is called for the update.                                  *)
C5_ErrorPropagates ==
    \A i \in 1..Len(trace) :
        (trace[i].ev = "endpoint" /\ trace[i].out \in {"Err", "Missing"}
         /\ trace[i].id = "") =>
            LET chain == Chain(trace[i].r) IN
            /\ i < Len(trace)
            /\ Len(trace) - i <= Len(chain) - 1
            /\ \A j \in (i + 1)..Len(trace) :
                 trace[j] = Return(chain[Len(chain) - (j - i) + 1], "Err")
            /\ pc \in {"returned", "done"}
            /\ pc = "returned" => ret = "Err"
            /\ pc = "done" => result = "Err" /\ Len(trace) - i = Len(chain) - 1
            /\ error = [kind |-> trace[i].out, r |-> trace[i].r, h |-> trace[i].h,
                        attempt |-> 1]

\* The endpoint of a handler of the sub-router r1a fails: r1a, r1 and the
\* dispatcher return the error.
C5_Witness ==
    /\ pc = "done"
    /\ result = "Err"
    /\ error.kind = "Err" /\ error.r = "r1a" /\ error.attempt = 1
    /\ trace[Len(trace)] = Return("r1", "Err")

---------------------------------------------------------------------------
---------------------------------------------------------------------------
(* C7: when an endpoint returns an error and the error handler signals     *)
(* Continue, what the error handler injected is appended to the injector,  *)
(* the endpoint is called exactly once more, the error handler is not      *)
(* called again, and the outcome of the second call is what                *)
(* Router::handle_update returns: Ok(true) for success, the error of the   *)
(* second call otherwise.                                                  *)
IsOnErr(e) == e.ev = "on_err"

---------------------------------------------------------------------------
(* C8: when the first call of an endpoint fails because a parameter type   *)
(* is missing from the injector (here Foo, the other parameter types being *)
(* present) and the error handler injects a value of that type and signals *)
(* Continue, the second call resolves every parameter and calls the        *)
(* endpoint function.                                                      *)
C8_RetryResolves ==
    \A i \in 1..(Len(trace) - 2) :
        (/\ trace[i].ev = "endpoint" /\ trace[i].out = "Missing"
         /\ trace[i + 1].ev = "on_err" /\ trace[i + 1].out = "Continue"
         /\ trace[i + 1].id = "Foo"
         /\ trace[i + 2].ev = "endpoint")
            => trace[i + 2].out \in {"Ok", "Err"}

---------------------------------------------------------------------------
(* C9: a before-hook of a router that always returns Break keeps every     *)
(* handler of the router and of its subtree from being checked or run, the *)
(* router and the routers of its subtree return Ok(false), and a top-level *)
(* router registered after it can still handle the update.                 *)
Subtree(r) == {x \in AllRouters : r \in Range(Chain(x))}

C9_BreakBlocksSubtree ==
    \A r \in AllRouters :
        (\E b \in Range(BeforeHooks(r)) : mwKind[b] = "Break") =>
            LET sub == Subtree(r) IN
            /\ \A i \in 1..Len(trace) :
                 trace[i].r \in sub =>
                     /\ trace[i].ev \in {"enter", "before", "return"}
                     /\ trace[i].ev = "return" => trace[i].out = "Ok(false)"
            /\ (stack # <<>> /\ Top.r \in sub) =>
                 pc \in {"enter", "handlers", "returned"}

\* The before-hook of r1 breaks: r1 and its sub-routers were entered and
\* returned Ok(false), and an endpoint of r2 handled the update.
C9_Witness ==
    /\ mwKind["r1.before"] = "Break"
    /\ pc = "done"
    /\ result = "Ok"
    /\ \E i \in 1..Len(trace) : trace[i] = Return("r1b", "Ok(false)")
    /\ \E i \in 1..Len(trace) : trace[i] = Return("r1", "Ok(false)")
    /\ \E i \in 1..Len(trace) :
         trace[i].ev = "endpoint" /\ trace[i].r = "r2" /\ trace[i].out = "Ok"

---------------------------------------------------------------------------
(* C10: the before-hooks of a handler are called in stack order (the       *)
(* dispatcher's, then those of the routers down to the handler's); the     *)
(* first that returns Break ends the chain, the handler is neither checked *)
(* nor run, and the traversal goes on to the next handler without error.   *)
\* A handler is checked only after every hook of the chain continued.     *)
RECURSIVE BeforeOf(_)
BeforeOf(chain) ==
    IF chain = <<>> THEN <<>> ELSE BeforeHooks(Head(chain)) \o BeforeOf(Tail(chain))

EffectiveBefore == [r \in AllRouters |-> BeforeOf(Chain(r))]

\* The hooks of the chain up to and including the first that breaks.
ExpectedRun(r) ==
    LET eff == EffectiveBefore[r]
        breaks == {k \in 1..Len(eff) : mwKind[eff[k]] = "Break"}
    IN IF breaks = {} THEN eff
       ELSE SubSeq(eff, 1, CHOOSE k \in breaks : \A m \in breaks : k <= m)

IndexIn(q, x) == CHOOSE k \in 1..Len(q) : q[k] = x

C10_BeforeChain ==
    \A i \in 1..Len(trace) :
        /\ trace[i].ev = "before" =>
             LET e == trace[i]
                 run == ExpectedRun(e.r)
             IN
             /\ e.id \in Range(run)
             /\ LET first == i - IndexIn(run, e.id) + 1 IN
                /\ first >= 1
                /\ \A m \in 1..Len(run) :
                     trace[first + m - 1] =
                         Event("before", e.r, e.h, run[m], mwKind[run[m]])
             /\ e.out = "Break" =>
                  /\ \A j \in 1..Len(trace) :
                       (trace[j].r = e.r /\ trace[j].h = e.h) =>
                           (trace[j].ev = "before" /\ j <= i)
                  /\ IF i = Len(trace)
                     THEN /\ \/ pc = "handlers" /\ Top.r = e.r /\ Top.h = e.h
                             \/ /\ pc = "enter" /\ e.h = NumHandlers
                                /\ ParentOf(Top.r) = e.r
                          /\ result = "none" /\ ret # "Err" /\ error = NoError
                     ELSE \/ /\ trace[i + 1].ev = "before"
                             /\ trace[i + 1].r = e.r /\ trace[i + 1].h = e.h + 1
                          \/ /\ e.h = NumHandlers
                             /\ trace[i + 1].ev = "enter"
                             /\ ParentOf(trace[i + 1].r) = e.r
                          \/ /\ e.h = NumHandlers
                             /\ trace[i + 1] = Return(e.r, "Ok(false)")
        /\ trace[i].ev = "check" =>
             LET eff == EffectiveBefore[trace[i].r] IN
             /\ i > Len(eff)
             /\ \A m \in 1..Len(eff) :
                  trace[i - Len(eff) + m - 1] =
                      Event("before", trace[i].r, trace[i].h, eff[m], "Continue")

\* For the first handler of r1a the dispatcher's hook continues and the hook
\* of r1 breaks: the hook of r1a is not called and the traversal goes on to
\* the second handler of r1a.
C10_Witness ==
    \E i \in 2..(Len(trace) - 1) :
        /\ trace[i - 1] = Event("before", "r1a", 1, "d.before", "Continue")
        /\ trace[i] = Event("before", "r1a", 1, "r1.before", "Break")
        /\ trace[i + 1] = Event("before", "r1a", 2, "d.before", "Continue")

---------------------------------------------------------------------------
(* C11: after-hooks are called only after an endpoint call returned        *)
(* success, in stack order (the dispatcher's, then those of the routers    *)
(* down to the handler's); an after-hook that returns Break ends the chain,*)
(* and Router::handle_update returns Ok(true) all the same.                *)
RECURSIVE AfterOf(_)
AfterOf(chain) ==
    IF chain = <<>> THEN <<>> ELSE AfterHooks(Head(chain)) \o AfterOf(Tail(chain))

EffectiveAfter == [r \in AllRouters |-> AfterOf(Chain(r))]

C11_AfterChain ==
    \A i \in 1..Len(trace) :
        trace[i].ev = "after" =>
            LET e == trace[i]
                eff == EffectiveAfter[e.r]
            IN
            /\ e.id \in Range(eff)
            /\ LET k == IndexIn(eff, e.id)
                   first == i - k + 1
               IN
               /\ first > 1
               /\ trace[first - 1].ev = "endpoint" /\ trace[first - 1].out = "Ok"
               /\ trace[first - 1].r = e.r /\ trace[first - 1].h = e.h
               /\ \A m \in 1..(k - 1) :
                    trace[first + m - 1] = Event("after", e.r, e.h, eff[m], "Continue")
               /\ i < Len(trace)
               /\ trace[i + 1] =
                    IF e.out = "Continue" /\ k < Len(eff)
                    THEN Event("after", e.r, e.h, eff[k + 1], trace[i + 1].out)
                    ELSE Return(e.r, "Ok(true)")

\* For a handler of r1a the hook of the dispatcher continues and the hook of
\* r1 breaks: the hook of r1a is not called and the update is handled.
C11_Witness ==
    /\ pc = "done"
    /\ result = "Ok"
    /\ \E i \in 2..(Len(trace) - 1) :
         /\ trace[i - 1].ev = "after" /\ trace[i - 1].id = "d.after"
         /\ trace[i - 1].out = "Continue"
         /\ trace[i].ev = "after" /\ trace[i].id = "r1.after"
         /\ trace[i].out = "Break" /\ trace[i].r = "r1a"
         /\ trace[i + 1] = Return("r1a", "Ok(true)")

---------------------------------------------------------------------------
(* The operations of the library taken alone: Injector, the filter         *)
(* combinators, the conversions into Flow and the Command filter.  One     *)
(* specification applies them to inputs drawn from small sets; inj is the  *)
(* injector operated on, injector the other injector of extend, flow the   *)
(* flow returned, and trace the calls made.  The dispatcher stands still.  *)

Types == {"T", "U"}

\* How many Injector calls a behaviour makes.
MaxOps == 5

InitLib ==
    /\ update = [kind |-> "Raw", sender |-> "none"]
    /\ allow_from_self = FALSE
    /\ mwKind = [b \in AllBeforeHooks |-> "Continue"]
    /\ injector = EmptyInjector
    /\ cache = {}
    /\ upd_sender = [receivers |-> 0, sent |-> <<>>]
    /\ pc = "lib"
    /\ next_router = 0
    /\ stack = <<>>
    /\ inj = EmptyInjector
    /\ middleware_flow = NoFlow
    /\ flow = NoFlow
    /\ handler = NoHandler
    /\ ret = "none"
    /\ error = NoError
    /\ result = "none"
    /\ trace = <<>>
    /\ username = <<"None">>
    /\ lock = "free"
    /\ checker = [k \in Checkers |-> "idle"]
    /\ tasks = <<>>
    /\ reports = <<>>
    /\ global_err_handler = FALSE
    /\ chats = NoChats
    /\ rwlock = "free"
    /\ callers = [t \in CacheTasks |-> NoCall]
    /\ cache_log = <<>>

\* A call on an injector: op is "insert", "take" or "extend", on the injector
\* called ("a" is inj, "b" is injector), t the type, v the value inserted or
\* taken and res what take returned.
Op(op, on, t, v, res) == [op |-> op, on |-> on, t |-> t, v |-> v, res |-> res]

\* Injector::insert called on a or on b with a value not used before.
InjectorInsert ==
    /\ pc \in {"lib", "injector"}
    /\ Len(trace) < MaxOps
    /\ \E on \in {"a", "b"}, t \in Types :
         LET v == Len(trace) + 1 IN
         /\ inj' = IF on = "a" THEN Insert(inj, t, v) ELSE inj
         /\ injector' = IF on = "b" THEN Insert(injector, t, v) ELSE injector
         /\ trace' = Append(trace, Op("insert", on, t, v, ""))
    /\ pc' = "injector"
    /\ UNCHANGED <<update, allow_from_self, mwKind, cache, upd_sender, next_router,
                   stack, middleware_flow, flow, handler, ret, error, result>>
    /\ UNCHANGED <<cmdVars, runVars, cacheVars>>

\* Injector::take called on a; a panic ends the behaviour.
InjectorTake ==
    /\ pc \in {"lib", "injector"}
    /\ Len(trace) < MaxOps
    /\ \E t \in Types :
         LET r == Take(inj, t) IN
         /\ inj' = r.inj
         /\ trace' = Append(trace, Op("take", "a", t, IF r.res = "Some" THEN r.value ELSE 0,
                                      r.res))
         /\ pc' = IF r.res = "panic" THEN "panicked" ELSE "injector"
    /\ UNCHANGED <<update, allow_from_self, mwKind, injector, cache, upd_sender,
                   next_router, stack, middleware_flow, flow, handler, ret, error,
                   result>>
    /\ UNCHANGED <<cmdVars, runVars, cacheVars>>

\* The function a caller passes to Injector::update.
F(v) == v + 10

\* Injector::update: Err for a type never inserted; the oldest value is
\* popped, f is applied to it and the result is pushed to the front; the
\* entry of a type stays when its queue empties, and pop_front().unwrap()
\* on it panics.
UpdateResource(i, t) ==
    IF t \notin DOMAIN i
    THEN [res |-> "Err", value |-> 0, inj |-> i]
    ELSE IF i[t] = <<>>
         THEN [res |-> "panic", value |-> 0, inj |-> i]
         ELSE [res |-> "Ok", value |-> F(Head(i[t])),
               inj |-> [i EXCEPT ![t] = <<F(Head(@))>> \o Tail(@)]]

\* Injector::update called on a; a panic ends the behaviour.
InjectorUpdate ==
    /\ pc \in {"lib", "injector"}
    /\ Len(trace) < MaxOps
    /\ \E t \in Types :
         LET r == UpdateResource(inj, t) IN
         /\ inj' = r.inj
         /\ trace' = Append(trace, Op("update", "a", t, r.value, r.res))
         /\ pc' = IF r.res = "panic" THEN "panicked" ELSE "updated"
    /\ UNCHANGED <<update, allow_from_self, mwKind, injector, cache, upd_sender,
                   next_router, stack, middleware_flow, flow, handler, ret, error,
                   result>>
    /\ UNCHANGED <<cmdVars, runVars, cacheVars>>

\* What HashMap::drain leaves of the other injector.
Drained(other) == EmptyInjector

\* Injector::extend: a.extend(b).
InjectorExtend ==
    /\ pc \in {"lib", "injector"}
    /\ Len(trace) < MaxOps
    /\ inj' = Extend(inj, injector)
    /\ injector' = Drained(injector)
    /\ trace' = Append(trace, Op("extend", "a", "", 0, ""))
    /\ pc' = "injector"
    /\ UNCHANGED <<update, allow_from_self, mwKind, cache, upd_sender, next_router,
                   stack, middleware_flow, flow, handler, ret, error, result>>
    /\ UNCHANGED <<cmdVars, runVars, cacheVars>>

---------------------------------------------------------------------------
(* Conversions into Flow (flow.rs 94-122).                                 *)

\* impl From<()> for Flow
FromUnit == break_now

\* impl From<bool> for Flow
FromBool(value) == IF value THEN continue_now ELSE break_now

\* Mutant: the value of Some is not injected.
FromOption_DropsValue(value) == IF value.some THEN continue_now ELSE break_now

\* impl From<Option<T>> for Flow: value is [some, t, v].
FromOption(value) == IF value.some THEN continue_with(value.t, value.v) ELSE break_now

\* impl From<Result<T>> for Flow: value is [ok, t, v].
FromResult(value) == IF value.ok THEN continue_with(value.t, value.v) ELSE break_now

\* What is converted: (), a bool (ok is the bool), an Option (ok says Some)
\* or a Result (ok says Ok), of a value v of type t.
FlowInputs ==
    {[kind |-> "unit", ok |-> FALSE, t |-> "", v |-> ""]}
    \cup [kind : {"bool"}, ok : BOOLEAN, t : {""}, v : {""}]
    \cup [kind : {"option", "result"}, ok : {TRUE}, t : Types, v : {"x", "y"}]
    \cup [kind : {"option", "result"}, ok : {FALSE}, t : {""}, v : {""}]

\* value.into()
Into(value) ==
    CASE value.kind = "unit" -> FromUnit
      [] value.kind = "bool" -> FromBool(value.ok)
      [] value.kind = "option" ->
           FromOption([some |-> value.ok, t |-> value.t, v |-> value.v])
      [] value.kind = "result" ->
           FromResult([ok |-> value.ok, t |-> value.t, v |-> value.v])

\* A value is converted into a Flow.
LibFlowFrom ==
    /\ pc = "lib"
    /\ \E value \in FlowInputs :
         /\ flow' = Into(value)
         /\ trace' = <<[op |-> "into", value |-> value]>>
    /\ pc' = "flow"
    /\ UNCHANGED <<update, allow_from_self, mwKind, injector, cache, upd_sender,
                   next_router, stack, inj, middleware_flow, handler, ret, error,
                   result>>
    /\ UNCHANGED <<cmdVars, runVars, cacheVars>>

\* Injector::take called on the injector of the flow.
LibFlowTake ==
    /\ pc = "flow"
    /\ \E t \in Types :
         LET r == Take(flow.injector, t) IN
         /\ flow' = [flow EXCEPT !.injector = r.inj]
         /\ trace' = Append(trace, Op("take", "flow", t,
                                      IF r.res = "Some" THEN r.value ELSE "", r.res))
    /\ pc' = "flow_taken"
    /\ UNCHANGED <<update, allow_from_self, mwKind, injector, cache, upd_sender,
                   next_router, stack, inj, middleware_flow, handler, ret, error,
                   result>>
    /\ UNCHANGED <<cmdVars, runVars, cacheVars>>

---------------------------------------------------------------------------
(* The filter combinators And, Or and Not.  A filter is a leaf, a function *)
(* of the user named f or g, or a combinator of filters; env gives the     *)
(* flow each leaf returns.  The check of a filter yields its flow and the  *)
(* leaves that were called, in order.                                      *)

Leaf(name) == [op |-> "leaf", name |-> name]

And(first, second) == [op |-> "and", first |-> first, second |-> second]

Or(first, other) == [op |-> "or", first |-> first, other |-> other]

Not(filter) == [op |-> "not", filter |-> filter]

\* The filters checked.
Filters ==
    {And(Leaf("f"), Leaf("g")), Or(Leaf("f"), Leaf("g")), Not(Leaf("f")),
     Not(And(Leaf("f"), Leaf("g"))), Not(Or(Leaf("f"), Leaf("g"))),
     And(Not(Leaf("f")), Leaf("g")), Or(Not(Leaf("f")), Leaf("g")),
     And(Leaf("f"), Or(Leaf("g"), Leaf("f")))}

\* What a function of the user may return: a flow of either action, with or
\* without a value it injected (its name, as type T or U).
LeafFlows(name) ==
    {[action |-> a, injector |-> i] :
        a \in {"Break", "Continue"},
        i \in {EmptyInjector, Insert(EmptyInjector, "T", name),
               Insert(EmptyInjector, "U", name)}}

\* Mutant: the merged injector is returned with Break.
AndResult_KeepsInjector(first, second) ==
    [flow |-> [action |-> IF first.flow.action = "Continue"
                             /\ second.flow.action = "Continue"
                          THEN "Continue" ELSE "Break",
               injector |-> Extend(second.flow.injector, first.flow.injector)],
     calls |-> first.calls \o second.calls]

\* And::check, given the checks of first and second.
AndResult(first, second) ==
    [flow |-> IF first.flow.action = "Continue" /\ second.flow.action = "Continue"
              THEN [action |-> second.flow.action,
                    injector |-> Extend(second.flow.injector, first.flow.injector)]
              ELSE break_now,
     calls |-> first.calls \o second.calls]

\* Mutant: other is checked whatever first returns.
OrResult_Eager(first, other) ==
    [flow |-> IF first.flow.action = "Continue" THEN first.flow
              ELSE IF other.flow.action = "Continue" THEN other.flow ELSE break_now,
     calls |-> first.calls \o other.calls]

\* Or::check, given the check of first and, if it is called, of other.
OrResult(first, other) ==
    IF first.flow.action = "Continue"
    THEN first
    ELSE [flow |-> IF other.flow.action = "Continue" THEN other.flow ELSE break_now,
          calls |-> first.calls \o other.calls]

\* Mutant: the flow of the filter is returned with its action reversed.
NotResult_KeepsInjector(filter) ==
    [flow |-> [action |-> IF filter.flow.action = "Continue" THEN "Break"
                          ELSE "Continue",
               injector |-> filter.flow.injector],
     calls |-> filter.calls]

\* Not::check, given the check of filter.
NotResult(filter) ==
    [flow |-> FromBool(~(filter.flow.action = "Continue")), calls |-> filter.calls]

\* Filter::check
RECURSIVE FilterCheck(_, _)
FilterCheck(filter, env) ==
    CASE filter.op = "leaf" -> [flow |-> env[filter.name], calls |-> <<filter.name>>]
      [] filter.op = "and" ->
           AndResult(FilterCheck(filter.first, env), FilterCheck(filter.second, env))
      [] filter.op = "or" ->
           OrResult(FilterCheck(filter.first, env), FilterCheck(filter.other, env))
      [] filter.op = "not" -> NotResult(FilterCheck(filter.filter, env))

\* A filter is checked on an update; first is the check of its first (or
\* only) filter, second that of its second filter were it called.
LibFilterCheck ==
    /\ pc = "lib"
    /\ \E filter \in Filters, ff \in LeafFlows("f"), gf \in LeafFlows("g") :
         LET env == [f |-> ff, g |-> gf]
             r == FilterCheck(filter, env)
         IN /\ flow' = r.flow
            /\ trace' = <<[op |-> "check", filter |-> filter, env |-> env,
                           calls |-> r.calls]>>
    /\ pc' = "filter"
    /\ UNCHANGED <<update, allow_from_self, mwKind, injector, cache, upd_sender,
                   next_router, stack, inj, middleware_flow, handler, ret, error,
                   result>>
    /\ UNCHANGED <<cmdVars, runVars, cacheVars>>

---------------------------------------------------------------------------
(* The Command filter (filters/command.rs).  A text is the sequence of its *)
(* characters; the pattern the filter compiles is a regular expression of  *)
(* literals, alternatives, concatenations, optional parts and the end      *)
(* ($|\s), matched from the start of the text.                             *)

Start == <<"s", "t", "a", "r", "t">>
Botname == <<"b", "o", "t", "n", "a", "m", "e">>

\* The message texts the filter is checked on.
Texts ==
    {<<"/">> \o Start, <<"!">> \o Start, <<"/">> \o Start \o <<"@">> \o Botname,
     <<"/">> \o Start \o <<"i", "n", "g">>, <<"/">> \o Start \o <<"e", "r">>,
     <<"/">> \o Start \o <<" ", "x">>, <<"/", "S", "T", "A", "R", "T">>,
     Start, <<"/">>, <<"!", " ", "x">>, <<"x", "/">> \o Start,
     <<"/">> \o Start \o <<"@", "x">>, <<"/", "a", " ", "b">>, <<"/", "a">>}

\* The commands: their text split at whitespace (command.rs 29).
Commands == {<<Start>>, <<<<"a">>, <<"b">>>>}

\* me.username() of the account.
Usernames == {<<"None">>, Botname}

\* filters::DEFAULT_PREFIXES, escaped
DefaultPrefixes == <<<<"/">>, <<"!">>>>

\* (?i): the letter a character is matched as.
Fold(c) ==
    CASE c = "S" -> "s" [] c = "T" -> "t" [] c = "A" -> "a" [] c = "R" -> "r"
      [] OTHER -> c

Lit(chars, nocase) == [op |-> "lit", chars |-> chars, nocase |-> nocase]

Cat(parts) == [op |-> "cat", parts |-> parts]

Alt(parts) == [op |-> "alt", parts |-> parts]

Opt(part) == [op |-> "opt", part |-> part]

EndOrSpace == [op |-> "end"]

\* Whether the literal is found at position pos (0 is the start) of text.
LitAt(lit, text, pos) ==
    /\ pos + Len(lit.chars) <= Len(text)
    /\ \A k \in 1..Len(lit.chars) :
         IF lit.nocase THEN Fold(text[pos + k]) = Fold(lit.chars[k])
         ELSE text[pos + k] = lit.chars[k]

\* The positions a match of re that starts at pos can end at.
RECURSIVE Ends(_, _, _)
RECURSIVE EndsCat(_, _, _)
Ends(re, text, pos) ==
    CASE re.op = "lit" ->
           IF LitAt(re, text, pos) THEN {pos + Len(re.chars)} ELSE {}
      [] re.op = "cat" -> EndsCat(re.parts, text, {pos})
      [] re.op = "alt" ->
           UNION {Ends(re.parts[k], text, pos) : k \in 1..Len(re.parts)}
      [] re.op = "opt" -> {pos} \cup Ends(re.part, text, pos)
      [] re.op = "end" ->
           (IF pos = Len(text) THEN {pos} ELSE {})
           \cup (IF pos < Len(text) /\ text[pos + 1] = " " THEN {pos + 1} ELSE {})

EndsCat(parts, text, from) ==
    IF parts = <<>>
    THEN from
    ELSE EndsCat(Tail(parts), text, UNION {Ends(Head(parts), text, p) : p \in from})

\* Regex::is_match of a pattern that begins with ^
IsMatch(re, text) == Ends(re, text, 0) # {}

\* command.rs 31-36: the username of the filter after the lookup.
ResolveUsername(cached, me) == IF cached = <<"None">> THEN me ELSE cached

\* The words joined by one space, as one literal.
RECURSIVE Join(_)
Join(words) ==
    IF Len(words) = 1 THEN Head(words) ELSE Head(words) \o <<" ">> \o Join(Tail(words))

\* command.rs 38-48: the pattern compiled.
CommandPattern(prefixes, splitted, name) ==
    LET pat == IF name # <<"None">>
               THEN <<Lit(splitted[1], TRUE),
                      Opt(Cat(<<Lit(<<"@">>, TRUE), Lit(name, TRUE)>>))>>
               ELSE <<>>
        pre_pat == Alt([k \in 1..Len(prefixes) |-> Lit(prefixes[k], FALSE)])
    IN IF Len(splitted) > 1
       THEN Cat(<<pre_pat>> \o pat
                \o <<Lit(<<" ">> \o Join(Tail(splitted)), TRUE), EndOrSpace>>)
       ELSE Cat(<<pre_pat>> \o pat \o <<EndOrSpace>>)

\* Command::check
CommandCheck(prefixes, splitted, cached, me, upd) ==
    FromBool(/\ upd.kind \in {"NewMessage", "MessageEdited"}
             /\ IsMatch(CommandPattern(prefixes, splitted, ResolveUsername(cached, me)),
                        upd.text))

\* A filter built by filters::command (prefixes DEFAULT_PREFIXES, username
\* None) is checked on an update.
LibCommandCheck ==
    /\ pc = "lib"
    /\ \E kind \in {"NewMessage", "MessageEdited", "CallbackQuery"},
          text \in Texts, me \in Usernames, command \in Commands :
         LET upd == [kind |-> kind, text |-> text] IN
         /\ flow' = CommandCheck(DefaultPrefixes, command, <<"None">>, me, upd)
         /\ trace' = <<[op |-> "command", update |-> upd, me |-> me,
                        command |-> command]>>
    /\ pc' = "command"
    /\ UNCHANGED <<update, allow_from_self, mwKind, injector, cache, upd_sender,
                   next_router, stack, inj, middleware_flow, handler, ret, error,
                   result>>
    /\ UNCHANGED <<cmdVars, runVars, cacheVars>>

\* handler.rs 120-121: the filter's check is called when the guard equals the
\* update's kind and the handler has a filter.
FilterCalled(h, upd) == UpdateTypeEq(h.update_type, upd) /\ h.filter

\* The handlers Handler::check is called on: any guard, with or without
\* filter.
LibHandlers ==
    [update_type : UpdateType, filter : BOOLEAN, endpoint : {NoEndpoint},
     err_handler : {FALSE}]

\* Handler::check is called on an update; filter_flow is what the filter
\* returns if it is called.
LibHandlerCheck ==
    /\ pc = "lib"
    /\ \E h \in LibHandlers, upd \in Updates, filter_flow \in FilterFlows :
         /\ handler' = h
         /\ update' = upd
         /\ flow' = Check(h, upd, filter_flow)
         /\ trace' = <<[op |-> "handler_check", filter_flow |-> filter_flow,
                        calls |-> IF FilterCalled(h, upd) THEN <<"filter">> ELSE <<>>]>>
    /\ pc' = "handler_check"
    /\ UNCHANGED <<allow_from_self, mwKind, injector, cache, upd_sender,
                   next_router, stack, inj, middleware_flow, ret, error, result>>
    /\ UNCHANGED <<cmdVars, runVars, cacheVars>>

---------------------------------------------------------------------------
(* Command::check called by the filter and by a clone of it, which share   *)
(* the cell Command.username; a check is split where it awaits.            *)

\* How many checks the holders of the filter make in all.
MaxChecks == 3

\* What client.get_me() answers: the account's username, if it has one, or
\* an error.
GetMe == Usernames \cup {<<"Err">>}

IsChecked(e) == e.op = "checked"

\* command.rs 31: the mutex of the username is locked.
CommandLock ==
    /\ pc \in {"lib", "shared"}
    /\ Len(SelectSeq(trace, IsChecked)) + Cardinality({k \in Checkers : checker[k] # "idle"})
           < MaxChecks
    /\ lock = "free"
    /\ \E k \in Checkers :
         /\ checker[k] = "idle"
         /\ lock' = k
         /\ checker' = [checker EXCEPT ![k] = "locked"]
    /\ pc' = "shared"
    /\ UNCHANGED <<update, allow_from_self, mwKind, injector, cache, upd_sender,
                   next_router, stack, inj, middleware_flow, flow, handler, ret,
                   error, result, trace, username, runVars>>
    /\ UNCHANGED cacheVars

\* command.rs 32-36: get_me is called if the cell holds no username; its
\* unwrap panics on an error, and the guard of the mutex is dropped.
CommandGetMe ==
    /\ pc = "shared"
    /\ \E k \in Checkers, me \in GetMe :
         /\ checker[k] = "locked"
         /\ IF username # <<"None">>
            THEN /\ me = <<"None">>
                 /\ checker' = [checker EXCEPT ![k] = "resolved"]
                 /\ UNCHANGED <<username, lock, trace>>
            ELSE /\ trace' = Append(trace, [op |-> "get_me", by |-> k, me |-> me])
                 /\ IF me = <<"Err">>
                    THEN /\ checker' = [checker EXCEPT ![k] = "panicked"]
                         /\ lock' = "free"
                         /\ UNCHANGED username
                    ELSE /\ checker' = [checker EXCEPT ![k] = "resolved"]
                         /\ username' = ResolveUsername(username, me)
                         /\ UNCHANGED lock
    /\ UNCHANGED <<update, allow_from_self, mwKind, injector, cache, upd_sender,
                   pc, next_router, stack, inj, middleware_flow, flow, handler,
                   ret, error, result, runVars>>
    /\ UNCHANGED cacheVars

\* command.rs 38-56: the pattern is compiled from the username of the cell
\* and matched on the text "/start"; the guard of the mutex is dropped.
CommandMatch ==
    /\ pc = "shared"
    /\ \E k \in Checkers :
         /\ checker[k] = "resolved"
         /\ flow' = CommandCheck(DefaultPrefixes, <<Start>>, username, username,
                                 [kind |-> "NewMessage", text |-> <<"/">> \o Start])
         /\ trace' = Append(trace, [op |-> "checked", by |-> k, username |-> username])
         /\ checker' = [checker EXCEPT ![k] = "idle"]
         /\ lock' = "free"
    /\ UNCHANGED <<update, allow_from_self, mwKind, injector, cache, upd_sender,
                   pc, next_router, stack, inj, middleware_flow, handler, ret,
                   error, result, username, runVars>>
    /\ UNCHANGED cacheVars

---------------------------------------------------------------------------
(* The builder of Router (router.rs).                                      *)

\* Router::default
RouterDefault ==
    [handlers |-> <<>>, middlewares |-> [after |-> <<>>, before |-> <<>>],
     routers |-> <<>>]

\* Router::handler
RouterHandler(self, h) == [self EXCEPT !.handlers = Append(@, h)]

\* Router::middlewares, the closure replacing the stack by m.
RouterMiddlewares(self, m) == [self EXCEPT !.middlewares = m]

\* Mutant: the nested router is kept as a sub-router.
RouterRouter_Nests(self, router) == [self EXCEPT !.routers = Append(@, router)]

\* Router::router, router being what the closure returned.
RouterRouter(self, router) == [self EXCEPT !.handlers = @ \o router.handlers]

\* The routers the builder is called on and the closures return: up to two
\* handlers, with or without a middleware stack, with or without a
\* sub-router.
BuiltRouters ==
    {[RouterMiddlewares(r, m) EXCEPT !.routers = rs] :
        r \in {RouterDefault,
                RouterHandler(RouterDefault, "h1"),
                RouterHandler(RouterDefault, "h3"),
                RouterHandler(RouterHandler(RouterDefault, "h1"), "h2"),
                RouterHandler(RouterHandler(RouterDefault, "h2"), "h1")},
        m \in {RouterDefault.middlewares,
                [after |-> <<"m.after">>, before |-> <<"m.before">>]},
        rs \in {<<>>, <<"sub">>}}

\* parent.router(|_| nested)
LibRouterRouter ==
    /\ pc = "lib"
    /\ \E parent \in BuiltRouters, nested \in BuiltRouters :
         trace' = <<[op |-> "router", parent |-> parent, nested |-> nested,
                     result |-> RouterRouter(parent, nested)]>>
    /\ pc' = "router"
    /\ UNCHANGED <<update, allow_from_self, mwKind, injector, cache, upd_sender,
                   next_router, stack, inj, middleware_flow, flow, handler, ret,
                   error, result>>
    /\ UNCHANGED <<cmdVars, runVars, cacheVars>>

---------------------------------------------------------------------------
(* Context::wait_for (context.rs).                                         *)

\* Option<u64>, the timeout in seconds: None and Some(5).
None == [some |-> FALSE, secs |-> 0]

Some(secs) == [some |-> TRUE, secs |-> secs]

Timeouts == {None, Some(5)}

\* Option::unwrap_or
UnwrapOr(opt, default) == IF opt.some THEN opt.secs ELSE default

\* Option::unwrap: a panic on None.
Unwrap(opt) == [panic |-> ~opt.some, secs |-> opt.secs]

\* Error::timeout
ErrorTimeout(time) == [kind |-> "Timeout", message |-> time]

\* The updates the broadcast channel delivers to a waiting context.
WaitUpdates == [kind : {"NewMessage", "CallbackQuery"}, sender : {"other"}]

\* What ends a call of wait_for_update: the sleep ("stop"), an update
\* received ("recv") or an error of the receiver ("recv_err").
WaitEvents == {"stop", "recv", "recv_err"}

\* Context::wait_for_update: the update returned, if any, and the duration
\* of the sleep it raced against.
WaitForUpdate(timeout, event, upd) ==
    [some |-> event = "recv", update |-> upd, sleep |-> UnwrapOr(timeout, 30)]

\* context.rs 849-859: what wait_for does with what wait_for_update returned,
\* filter_flow being the flow of the filter on the update.
WaitForResult(timeout, got, filter_flow) ==
    IF got.some
    THEN IF filter_flow.action = "Continue"
         THEN [pc |-> "waited", result |-> "Ok", error |-> NoError]
         ELSE [pc |-> "wait_for", result |-> "none", error |-> NoError]
    ELSE IF Unwrap(timeout).panic
         THEN [pc |-> "panicked", result |-> "panic", error |-> NoError]
         ELSE [pc |-> "waited", result |-> "Err",
               error |-> ErrorTimeout(Unwrap(timeout).secs)]

\* Context::wait_for is called with a filter and a timeout.
LibWaitFor ==
    /\ pc = "lib"
    /\ \E timeout \in Timeouts : trace' = <<[op |-> "wait_for", timeout |-> timeout]>>
    /\ pc' = "wait_for"
    /\ UNCHANGED <<update, allow_from_self, mwKind, injector, cache, upd_sender,
                   next_router, stack, inj, middleware_flow, flow, handler, ret,
                   error, result>>
    /\ UNCHANGED <<cmdVars, runVars, cacheVars>>

\* context.rs 848-860: one turn of the loop of wait_for.
WaitForLoop ==
    /\ pc = "wait_for"
    /\ Len(trace) < MaxOps
    /\ \E event \in WaitEvents, upd \in WaitUpdates, filter_flow \in FilterFlows :
         LET timeout == trace[1].timeout
             got == WaitForUpdate(timeout, event, upd)
             r == WaitForResult(timeout, got, filter_flow)
         IN /\ event # "recv" => upd.kind = "NewMessage" /\ filter_flow = break_now
            /\ trace' = Append(trace, [op |-> event, sleep |-> got.sleep,
                                       update |-> upd, flow |-> filter_flow])
            /\ pc' = r.pc
            /\ result' = r.result
            /\ error' = r.error
            /\ update' = IF r.result = "Ok" THEN got.update ELSE update
            /\ flow' = IF got.some THEN filter_flow ELSE flow
    /\ UNCHANGED <<allow_from_self, mwKind, injector, cache, upd_sender,
                   next_router, stack, inj, middleware_flow, handler, ret>>
    /\ UNCHANGED <<cmdVars, runVars, cacheVars>>

---------------------------------------------------------------------------
(* Router::handle_update of one router whose before-hooks and filters      *)
(* inject values (router.rs 114-192, middleware.rs 69-104).  The router    *)
(* has the before-hooks MwBefore, no after-hook, no sub-router, and        *)
(* handlers without error handler.                                         *)

\* How many handlers the router has.
MwHandlers == 3

\* MiddlewareStack.before of the router.
MwBefore == <<"m1", "m2">>

\* What a before-hook does when called: what its flow is ("Inject" is
\* flow::continue_with of a value) and whether it inserts a value into the
\* injector it is handed.  A hook does the same on every call of a dispatch.
HookBehaviours == [returns : {"Break", "Continue", "Inject"}, inserts : BOOLEAN]

\* Middleware::handle (middleware.rs 90-104): the hook is handed the
\* injector of the update as &mut and returns a flow.
Hook(m, b, i) ==
    [flow |-> CASE b.returns = "Break" -> break_now
                [] b.returns = "Inject" -> continue_with("Foo", m)
                [] OTHER -> continue_now,
     inj |-> IF b.inserts THEN Insert(i, "Bar", m) ELSE i]

\* The loop of MiddlewareStack::handle_before (middleware.rs 77-82): `f` is
\* the flow so far, `run` the hooks called so far, `i` the injector.
RECURSIVE BeforeLoopInj(_, _, _, _, _)
BeforeLoopInj(before, bs, f, run, i) ==
    IF before = <<>>
    THEN [flow |-> f, run |-> run, inj |-> i]
    ELSE LET m == Head(before)
             c == Hook(m, bs[m], i)
         IN IF c.flow.action = "Break"
            THEN [flow |-> c.flow, run |-> Append(run, m), inj |-> c.inj]
            ELSE BeforeLoopInj(Tail(before), bs, c.flow, Append(run, m), c.inj)

\* Mutant: every call of the chain works on an injector of its own.
HandleBeforeInj_Fresh(before, bs, i) ==
    BeforeLoopInj(before, bs, continue_now, <<>>, EmptyInjector)

\* Mutant: the values of the flows of all the hooks called are kept.
RECURSIVE BeforeLoopMerged(_, _, _, _, _)
BeforeLoopMerged(before, bs, f, run, i) ==
    IF before = <<>>
    THEN [flow |-> f, run |-> run, inj |-> i]
    ELSE LET m == Head(before)
             c == Hook(m, bs[m], i)
             merged == [action |-> c.flow.action,
                        injector |-> Extend(f.injector, c.flow.injector)]
         IN IF c.flow.action = "Break"
            THEN [flow |-> merged, run |-> Append(run, m), inj |-> c.inj]
            ELSE BeforeLoopMerged(Tail(before), bs, merged, Append(run, m), c.inj)

HandleBeforeInj_Merged(before, bs, i) ==
    BeforeLoopMerged(before, bs, continue_now, <<>>, i)

\* MiddlewareStack::handle_before (middleware.rs 69-85): the flow starts as
\* Flow::default() and is assigned by every hook called.
HandleBeforeInj(before, bs, i) == BeforeLoopInj(before, bs, continue_now, <<>>, i)

\* filters::reply (filters/mod.rs 708-720): is_reply is whether the message
\* of the update replies to another.
Reply(upd, is_reply) ==
    IF upd.kind \in {"NewMessage", "MessageEdited"} /\ is_reply
    THEN continue_with("Message", "reply")
    ELSE break_now

\* What the filter of a handler of the router may return on the update.
MwFilterFlows(upd) ==
    {Reply(upd, TRUE), Reply(upd, FALSE), continue_now,
     continue_with("Foo", "filter")}

\* The endpoints of the handlers of the router.
MwSignatures == {<<"Message">>, <<"Message", "Message">>, <<"Foo", "Foo">>, <<"Bar">>}

\* The handlers of the router: all of them are on_new_message handlers
\* with a filter.
MwHandlerSet ==
    [update_type : {"NewMessage"}, filter : {TRUE},
     endpoint : MwSignatures \cup {NoEndpoint}, err_handler : {FALSE}]

\* The updates the router is given.
MwUpdates ==
    {[kind |-> "NewMessage", sender |-> "other"],
     [kind |-> "CallbackQuery", sender |-> "other"]}

\* The values the parameters of HandlerFunc::handle receive (di.rs 224-230),
\* in declaration order, up to the first parameter that gets none.
RECURSIVE Received(_, _)
Received(params, i) ==
    IF params = <<>>
    THEN <<>>
    ELSE LET t == Take(i, Head(params)) IN
         IF t.res = "Some"
         THEN <<t.value>> \o Received(Tail(params), t.inj)
         ELSE <<>>

\* router.rs 115-122: the router is entered with the injector the dispatcher
\* built and an empty inherited stack.
MwEnter ==
    /\ pc = "lib"
    /\ \E upd \in MwUpdates : update' = upd
    /\ \E bs \in [Range(MwBefore) -> HookBehaviours] : mwKind' = bs
    /\ inj' = BuildInjector(injector)
    /\ stack' = <<[r |-> "mw", h |-> 0,
                   middlewares |-> StackExtend([after |-> <<>>, before |-> <<>>],
                                               [after |-> <<>>, before |-> MwBefore])]>>
    /\ trace' = <<>>
    /\ pc' = "mw_handlers"
    /\ UNCHANGED <<allow_from_self, injector, cache, upd_sender,
                   next_router, middleware_flow, flow, handler, ret, error,
                   result>>
    /\ UNCHANGED <<cmdVars, runVars, cacheVars>>

\* router.rs 124-126: the next handler of the loop and the before-hooks.
MwHandleBefore ==
    /\ pc = "mw_handlers"
    /\ stack[1].h < MwHandlers
    /\ LET b == HandleBeforeInj(stack[1].middlewares.before, mwKind, inj) IN
         /\ inj' = b.inj
         /\ trace' = Append(trace, [op |-> "before", h |-> stack[1].h + 1,
                                    run |-> b.run, flow |-> b.flow])
         /\ IF b.flow.action = "Continue"
            THEN pc' = "mw_check" /\ middleware_flow' = b.flow
            ELSE pc' = "mw_handlers" /\ middleware_flow' = NoFlow
    /\ stack' = [stack EXCEPT ![1].h = @ + 1]
    /\ UNCHANGED <<update, allow_from_self, mwKind, injector, cache, upd_sender,
                   next_router, flow, handler, ret, error, result>>
    /\ UNCHANGED <<cmdVars, runVars, cacheVars>>

\* router.rs 127-128: the handler is checked and the injector of the
\* middleware flow is moved into the flow.
MwCheck ==
    /\ pc = "mw_check"
    /\ \E h \in MwHandlerSet, filter_flow \in MwFilterFlows(update) :
         LET f == Check(h, update, filter_flow) IN
         /\ handler' = h
         /\ flow' = [action |-> f.action,
                     injector |-> Extend(f.injector, middleware_flow.injector)]
    /\ middleware_flow' = NoFlow
    /\ pc' = "mw_checked"
    /\ UNCHANGED <<update, allow_from_self, mwKind, injector, cache, upd_sender,
                   next_router, stack, inj, ret, error, result, trace>>
    /\ UNCHANGED <<cmdVars, runVars, cacheVars>>

\* router.rs 130-131: the flow breaks or the handler has no endpoint.
MwSkip ==
    /\ pc = "mw_checked"
    /\ flow.action = "Break" \/ handler.endpoint = NoEndpoint
    /\ inj' = SkippedInjector(inj, flow)
    /\ flow' = NoFlow
    /\ handler' = NoHandler
    /\ pc' = "mw_handlers"
    /\ UNCHANGED <<update, allow_from_self, mwKind, injector, cache, upd_sender,
                   next_router, stack, middleware_flow, ret, error, result,
                   trace>>
    /\ UNCHANGED <<cmdVars, runVars, cacheVars>>

\* router.rs 130-172: the endpoint of the matched handler is called on the
\* injector; the router has no after-hook and the handler no error handler,
\* so Ok(()) returns Ok(true) and an error returns the error.
MwEndpoint ==
    /\ pc = "mw_checked"
    /\ flow.action = "Continue"
    /\ handler.endpoint # NoEndpoint
    /\ \E body \in {"Ok", "Err"} :
         LET i == EndpointInjector(inj, flow, update)
             r == Handle(handler.endpoint, i, body)
         IN /\ inj' = r.inj
            /\ trace' = Append(trace, [op |-> "endpoint", h |-> stack[1].h,
                                       params |-> handler.endpoint,
                                       flow |-> flow, injector |-> i,
                                       received |-> Received(handler.endpoint, i),
                                       out |-> r.out])
            /\ ret' = IF r.out = "Ok" THEN "Ok(true)" ELSE "Err"
    /\ pc' = "mw_returned"
    /\ UNCHANGED <<update, allow_from_self, mwKind, injector, cache, upd_sender,
                   next_router, stack, middleware_flow, flow, handler, error,
                   result>>
    /\ UNCHANGED <<cmdVars, runVars, cacheVars>>

\* router.rs 180-191: no handler is left and the router has no sub-router.
MwUnhandled ==
    /\ pc = "mw_handlers"
    /\ stack[1].h = MwHandlers
    /\ ret' = "Ok(false)"
    /\ pc' = "mw_returned"
    /\ UNCHANGED <<update, allow_from_self, mwKind, injector, cache, upd_sender,
                   next_router, stack, inj, middleware_flow, flow, handler,
                   error, result, trace>>
    /\ UNCHANGED <<cmdVars, runVars, cacheVars>>

NextLib ==
    \/ InjectorInsert
    \/ InjectorTake
    \/ InjectorExtend
    \/ InjectorUpdate
    \/ LibFilterCheck
    \/ LibFlowFrom
    \/ LibFlowTake
    \/ LibCommandCheck
    \/ CommandLock
    \/ CommandGetMe
    \/ CommandMatch
    \/ LibHandlerCheck
    \/ LibRouterRouter
    \/ MwEnter
    \/ MwHandleBefore
    \/ MwCheck
    \/ MwSkip
    \/ MwEndpoint
    \/ MwUnhandled
    \/ LibWaitFor
    \/ WaitForLoop

SpecLib == InitLib /\ [][NextLib]_vars

---------------------------------------------------------------------------
(* Client::run (client.rs): the loop that fetches the updates and spawns   *)
(* one task per update.  The dispatch of a task is the traversal above     *)
(* reduced to what a task can share with another: the injector of its      *)
(* dispatcher clone, its per-update injector, and the value it returns.    *)

\* How many updates the loop fetches.
MaxUpdates == 2

\* How many times next_update returns an error.
MaxFetchErrors == 1

\* The n-th update the backend delivers.
RunUpdate(n) ==
    [kind |-> IF n % 2 = 1 THEN "NewMessage" ELSE "CallbackQuery", sender |-> "other"]

InitRun ==
    /\ update = [kind |-> "Raw", sender |-> "none"]
    /\ allow_from_self = FALSE
    /\ mwKind = [b \in AllBeforeHooks |-> "Continue"]
    /\ injector \in GlobalInjectors
    /\ cache = {}
    /\ upd_sender = [receivers |-> 0, sent |-> <<>>]
    /\ pc = "run"
    /\ next_router = 0
    /\ stack = <<>>
    /\ inj = EmptyInjector
    /\ middleware_flow = NoFlow
    /\ flow = NoFlow
    /\ handler = NoHandler
    /\ ret = "none"
    /\ error = NoError
    /\ result = "none"
    /\ trace = <<>>
    /\ username = <<"None">>
    /\ lock = "free"
    /\ checker = [k \in Checkers |-> "idle"]
    /\ tasks = <<>>
    /\ reports = <<>>
    /\ global_err_handler \in BOOLEAN
    /\ chats = NoChats
    /\ rwlock = "free"
    /\ callers = [t \in CacheTasks |-> NoCall]
    /\ cache_log = <<>>

\* Mutant: the clone of the dispatcher has lost the global values.
DispatcherClone_Empty(global) == EmptyInjector

\* client.rs 290, #[derive(Clone)] of Dispatcher and of Injector: the
\* injector of the clone holds the values of the original, in its own queues.
DispatcherClone(global) == global

\* client.rs 289-293: the task spawned for an update.
Spawn(upd, global) ==
    [update |-> upd, pc |-> "spawned", dp |-> DispatcherClone(global),
     inj |-> EmptyInjector, out |-> "none", log |-> <<>>]

\* The parameter lists of the endpoints of the tasks: no parameter, or a
\* value of the type the global injector holds.
RunSignatures == {<<>>, <<"Foo">>}

IsFetchError(r) == r.task = 0

\* client.rs 287-302: an update is fetched and a task is spawned for it.
RunNextUpdate ==
    /\ pc = "run"
    /\ Len(tasks) < MaxUpdates
    /\ tasks' = Append(tasks, Spawn(RunUpdate(Len(tasks) + 1), injector))
    /\ UNCHANGED <<update, allow_from_self, mwKind, injector, cache, upd_sender,
                   pc, next_router, stack, inj, middleware_flow, flow, handler,
                   ret, error, result, trace, cmdVars, global_err_handler, reports>>
    /\ UNCHANGED cacheVars

\* client.rs 303-305: next_update returns an error, which is logged.
RunNextUpdateErr ==
    /\ pc = "run"
    /\ Len(tasks) < MaxUpdates
    /\ Len(SelectSeq(reports, IsFetchError)) < MaxFetchErrors
    /\ reports' = Append(reports, [task |-> 0, to |-> "log"])
    /\ UNCHANGED <<update, allow_from_self, mwKind, injector, cache, upd_sender,
                   pc, next_router, stack, inj, middleware_flow, flow, handler,
                   ret, error, result, trace, cmdVars, global_err_handler, tasks>>
    /\ UNCHANGED cacheVars

\* dispatcher.rs 183-195: the task builds the injector of its update from
\* the injector of its dispatcher clone.
TaskBuild ==
    /\ pc = "run"
    /\ \E i \in 1..Len(tasks) :
         /\ tasks[i].pc = "spawned"
         /\ tasks' = [tasks EXCEPT ![i].inj = BuildInjector(tasks[i].dp),
                                   ![i].dp = GlobalAfterBuild(@),
                                   ![i].pc = "built",
                                   ![i].log = Append(@, [op |-> "build"])]
    /\ UNCHANGED <<update, allow_from_self, mwKind, injector, cache, upd_sender,
                   pc, next_router, stack, inj, middleware_flow, flow, handler,
                   ret, error, result, trace, cmdVars, global_err_handler, reports>>
    /\ UNCHANGED cacheVars

\* router.rs 130-147: a handler matches the update of the task.
TaskMatch ==
    /\ pc = "run"
    /\ \E i \in 1..Len(tasks), f \in FilterFlows :
         /\ tasks[i].pc = "built"
         /\ f.action = "Continue"
         /\ tasks' = [tasks EXCEPT ![i].inj = EndpointInjector(@, f, tasks[i].update),
                                   ![i].pc = "endpoint",
                                   ![i].log = Append(@, [op |-> "match", flow |-> f])]
    /\ UNCHANGED <<update, allow_from_self, mwKind, injector, cache, upd_sender,
                   pc, next_router, stack, inj, middleware_flow, flow, handler,
                   ret, error, result, trace, cmdVars, global_err_handler, reports>>
    /\ UNCHANGED cacheVars

\* dispatcher.rs 261: no handler matches the update of the task.
TaskUnhandled ==
    /\ pc = "run"
    /\ \E i \in 1..Len(tasks) :
         /\ tasks[i].pc = "built"
         /\ tasks' = [tasks EXCEPT ![i].out = "Ok", ![i].pc = "returned"]
    /\ UNCHANGED <<update, allow_from_self, mwKind, injector, cache, upd_sender,
                   pc, next_router, stack, inj, middleware_flow, flow, handler,
                   ret, error, result, trace, cmdVars, global_err_handler, reports>>
    /\ UNCHANGED cacheVars

\* router.rs 149-172 for a handler without error handler: the endpoint of
\* the task is called and what it returns is what the dispatch returns.
TaskEndpoint ==
    /\ pc = "run"
    /\ \E i \in 1..Len(tasks), params \in RunSignatures, body \in {"Ok", "Err"} :
         LET e == Handle(params, tasks[i].inj, body) IN
         /\ tasks[i].pc = "endpoint"
         /\ tasks' = [tasks EXCEPT ![i].inj = e.inj,
                                   ![i].out = e.out,
                                   ![i].pc = IF e.out = "panic" THEN "panicked"
                                             ELSE "returned",
                                   ![i].log = Append(@, [op |-> "endpoint",
                                                         params |-> params,
                                                         body |-> body])]
    /\ UNCHANGED <<update, allow_from_self, mwKind, injector, cache, upd_sender,
                   pc, next_router, stack, inj, middleware_flow, flow, handler,
                   ret, error, result, trace, cmdVars, global_err_handler, reports>>
    /\ UNCHANGED cacheVars

\* Mutant: the error of a dispatch is dropped without a report.
Report_Dropped(i, out, set) == <<>>

\* client.rs 294-300: the error of a dispatch goes to the global error
\* handler if there is one and to the log otherwise.
Report(i, out, set) ==
    IF out = "Ok" THEN <<>>
    ELSE <<[task |-> i, to |-> IF set THEN "err_handler" ELSE "log"]>>

\* client.rs 294-301: the dispatch of the task has returned.
TaskReport ==
    /\ pc = "run"
    /\ \E i \in 1..Len(tasks) :
         /\ tasks[i].pc = "returned"
         /\ reports' = reports \o Report(i, tasks[i].out, global_err_handler)
         /\ tasks' = [tasks EXCEPT ![i].pc = "finished"]
    /\ UNCHANGED <<update, allow_from_self, mwKind, injector, cache, upd_sender,
                   pc, next_router, stack, inj, middleware_flow, flow, handler,
                   ret, error, result, trace, cmdVars, global_err_handler>>
    /\ UNCHANGED cacheVars

NextRun ==
    \/ RunNextUpdate
    \/ RunNextUpdateErr
    \/ TaskBuild
    \/ TaskMatch
    \/ TaskUnhandled
    \/ TaskEndpoint
    \/ TaskReport

SpecRun == InitRun /\ [][NextRun]_vars

\* The runtime schedules the loop and every spawned task, and the backend
\* delivers the updates.
SpecRunFair ==
    /\ SpecRun
    /\ WF_vars(RunNextUpdate)
    /\ WF_vars(TaskBuild)
    /\ WF_vars(TaskMatch \/ TaskUnhandled)
    /\ WF_vars(TaskEndpoint)
    /\ WF_vars(TaskReport)

---------------------------------------------------------------------------
(* C12: the Injector is first in, first out per type: take returns the     *)
(* oldest value of the type not yet taken, whatever was inserted or taken  *)
(* of other types, and returns None without failing once the values of the *)
(* type are used up.                                                       *)
\* The values of type t that a (or b) should hold after the calls of log.
RECURSIVE Fifo(_, _, _)
Fifo(log, on, t) ==
    IF log = <<>>
    THEN <<>>
    ELSE LET e == log[Len(log)]
             before == SubSeq(log, 1, Len(log) - 1)
             q == Fifo(before, on, t)
         IN CASE e.op = "insert" /\ e.on = on /\ e.t = t -> Append(q, e.v)
              [] e.op = "take" /\ on = "a" /\ e.t = t ->
                   IF q = <<>> THEN q ELSE Tail(q)
              [] e.op = "extend" ->
                   IF on = "a" THEN q \o Fifo(before, "b", t) ELSE <<>>
              [] OTHER -> q

C12_Fifo ==
    \A i \in 1..Len(trace) :
        (pc \in {"injector", "panicked"} /\ trace[i].op = "take") =>
            LET q == Fifo(SubSeq(trace, 1, i - 1), "a", trace[i].t) IN
            IF q = <<>>
            THEN trace[i].res = "None"
            ELSE trace[i].res = "Some" /\ trace[i].v = Head(q)

---------------------------------------------------------------------------
(* C13: a.extend(b) leaves b without values and makes the queue of every   *)
(* type in a the values a held followed by the values b held, each in its  *)
(* order: no value is lost, overwritten or duplicated.                     *)
IsExtendStep ==
    /\ pc' = "injector"
    /\ Len(trace') = Len(trace) + 1
    /\ trace'[Len(trace')].op = "extend"

C13_ExtendAppends ==
    [][IsExtendStep =>
         /\ \A t \in Types : Queue(inj', t) = Queue(inj, t) \o Queue(injector, t)
         /\ \A t \in DOMAIN inj' : t \in Types
         /\ \A t \in Types : Queue(injector', t) = <<>>
         /\ DOMAIN injector' = {}]_vars

\* a held a value of type T, b held another, and a.extend(b) was called:
\* a holds its own value, then the value of b.
C13_Witness ==
    /\ pc = "injector"
    /\ trace # <<>>
    /\ trace[Len(trace)].op = "extend"
    /\ Len(Queue(inj, "T")) = 2
    /\ trace[inj["T"][1]] = Op("insert", "a", "T", inj["T"][1], "")
    /\ trace[inj["T"][2]] = Op("insert", "b", "T", inj["T"][2], "")
    /\ injector = EmptyInjector

---------------------------------------------------------------------------
(* C14: if filter f breaks, f.and(g) returns Break and the injector of the *)
(* flow it returns holds no value, neither of f nor of g.                  *)
C14_AndBreaks ==
    (pc = "filter" /\ trace[1].filter.op = "and"
     /\ FilterCheck(trace[1].filter.first, trace[1].env).flow.action = "Break") =>
        /\ flow.action = "Break"
        /\ flow.injector = EmptyInjector
        /\ \A t \in Types : Queue(flow.injector, t) = <<>>

\* f breaks having injected a value, g continues with its marker: the flow
\* of f.and(g) is Break and carries neither.
C14_Witness ==
    /\ pc = "filter"
    /\ trace[1].filter = And(Leaf("f"), Leaf("g"))
    /\ trace[1].env.f = [action |-> "Break", injector |-> Insert(EmptyInjector, "T", "f")]
    /\ trace[1].env.g = continue_with("T", "g")
    /\ flow = break_now

---------------------------------------------------------------------------
(* C15: f.and(g) is short-circuiting: when f breaks, g is not called.      *)
C15_AndShortCircuits ==
    (pc = "filter" /\ trace[1].filter.op = "and"
     /\ FilterCheck(trace[1].filter.first, trace[1].env).flow.action = "Break") =>
        trace[1].calls = FilterCheck(trace[1].filter.first, trace[1].env).calls

---------------------------------------------------------------------------
(* C16: f.or(g) is short-circuiting: when f continues the flow of f is     *)
(* returned and g is not called; when f breaks g is called, and its flow   *)
(* is returned if it continues, Break without values otherwise.            *)
C16_OrShortCircuits ==
    (pc = "filter" /\ trace[1].filter.op = "or") =>
        LET first == FilterCheck(trace[1].filter.first, trace[1].env)
            other == FilterCheck(trace[1].filter.other, trace[1].env)
        IN IF first.flow.action = "Continue"
           THEN /\ flow = first.flow
                /\ trace[1].calls = first.calls
           ELSE /\ trace[1].calls = first.calls \o other.calls
                /\ IF other.flow.action = "Continue"
                   THEN flow = other.flow
                   ELSE flow = break_now

\* f continues with a value and g would continue with another: the flow of
\* f is returned and g was not called.
C16_Witness ==
    /\ pc = "filter"
    /\ trace[1].filter = Or(Leaf("f"), Leaf("g"))
    /\ trace[1].env.f = continue_with("T", "f")
    /\ trace[1].env.g = continue_with("T", "g")
    /\ flow = continue_with("T", "f")
    /\ trace[1].calls = <<"f">>

---------------------------------------------------------------------------
(* C17: not(f) calls f exactly once and returns Continue if and only if f  *)
(* returned Break; the injector of the flow it returns is empty whatever f *)
(* injected.                                                               *)
C17_NotReverses ==
    (pc = "filter" /\ trace[1].filter.op = "not") =>
        LET inner == FilterCheck(trace[1].filter.filter, trace[1].env) IN
        /\ flow.action = "Continue" <=> inner.flow.action = "Break"
        /\ flow.action \in {"Continue", "Break"}
        /\ flow.injector = EmptyInjector
        /\ trace[1].calls = inner.calls
        /\ trace[1].filter.filter.op = "leaf" =>
             trace[1].calls = <<trace[1].filter.filter.name>>

\* f breaks having injected a value: not(f) continues with an empty injector.
C17_Witness ==
    /\ pc = "filter"
    /\ trace[1].filter = Not(Leaf("f"))
    /\ trace[1].env.f = [action |-> "Break", injector |-> Insert(EmptyInjector, "T", "f")]
    /\ flow = continue_now
    /\ trace[1].calls = <<"f">>

---------------------------------------------------------------------------
(* C18: () converts to Break; a bool to Continue if and only if it is      *)
(* true; Some(v) and Ok(v) to Continue with v injected, so that take of    *)
(* the type of v on the injector of the flow yields v; None and Err to     *)
(* Break with an empty injector.                                           *)
C18_Conversions ==
    /\ pc = "flow" =>
         LET value == trace[1].value IN
         CASE value.kind = "unit" -> flow = [action |-> "Break", injector |-> EmptyInjector]
           [] value.kind = "bool" ->
                /\ flow.action = IF value.ok THEN "Continue" ELSE "Break"
                /\ flow.injector = EmptyInjector
           [] OTHER ->
                IF value.ok
                THEN /\ flow.action = "Continue"
                     /\ DOMAIN flow.injector = {value.t}
                     /\ flow.injector[value.t] = <<value.v>>
                ELSE flow = [action |-> "Break", injector |-> EmptyInjector]
    /\ pc = "flow_taken" =>
         LET value == trace[1].value
             take == trace[2]
         IN IF value.kind \in {"option", "result"} /\ value.ok /\ take.t = value.t
            THEN take.res = "Some" /\ take.v = value.v
            ELSE take.res = "None"

\* Some("x") of type T was converted and take::<T>() returned "x".
C18_Witness ==
    /\ pc = "flow_taken"
    /\ trace[1].value = [kind |-> "option", ok |-> TRUE, t |-> "T", v |-> "x"]
    /\ trace[2] = Op("take", "flow", "T", "x", "Some")
    /\ flow.action = "Continue"

---------------------------------------------------------------------------
(* C19: a command("start") filter with the default prefixes continues on   *)
(* the texts /start and !start whether or not the account has a username,  *)
(* continues on /start@botname when the username is botname, and breaks on *)
(* /starting and /starter.                                                 *)
C19_CommandStart ==
    (/\ pc = "command"
     /\ trace[1].command = <<Start>>
     /\ trace[1].update.kind \in {"NewMessage", "MessageEdited"}) =>
        LET text == trace[1].update.text IN
        /\ text \in {<<"/">> \o Start, <<"!">> \o Start} => flow.action = "Continue"
        /\ (text = <<"/">> \o Start \o <<"@">> \o Botname /\ trace[1].me = Botname) =>
             flow.action = "Continue"
        /\ text \in {<<"/">> \o Start \o <<"i", "n", "g">>,
                     <<"/">> \o Start \o <<"e", "r">>} => flow.action = "Break"

---------------------------------------------------------------------------
(* C20: Dispatcher::handle_update builds a fresh injector for the update,  *)
(* holding the context, the client, the update and a clone of the values   *)
(* of the global injector; no step of a dispatch changes the global        *)
(* injector, whatever the endpoints take from the per-update injector, so  *)
(* every dispatch starts from the same global values in the same order.    *)
C20_Built ==
    pc = "self_filter" =>
        /\ DOMAIN inj = {"Context", "Client", "Update"} \cup DOMAIN injector
        /\ inj["Context"] = <<"context">>
        /\ inj["Client"] = <<"client">>
        /\ inj["Update"] = <<"update">>
        /\ \A t \in DOMAIN injector : inj[t] = injector[t]

C20_GlobalInjectorKept == []C20_Built /\ [][injector' = injector]_vars

\* The global injector holds g1 and g2; an endpoint took g1 from the
\* per-update injector and the global injector still holds both.
C20_Witness ==
    /\ pc = "done"
    /\ result = "Ok"
    /\ injector = Insert(Insert(EmptyInjector, "Foo", "g1"), "Foo", "g2")
    /\ "Foo" \in DOMAIN inj
    /\ inj["Foo"] = <<"g2">>
    /\ \E i \in 1..Len(trace) : trace[i].ev = "endpoint" /\ trace[i].out = "Ok"

---------------------------------------------------------------------------
(* C22: an update nothing matches is not an error. A router returns        *)
(* Ok(false) exactly when no endpoint was called in the router or in its   *)
(* sub-routers; after Ok(false) from a router or plugin the dispatcher     *)
(* enters the next one; and a dispatch in which no endpoint was called     *)
(* ends with success and no error.                                         *)
C22_UnhandledIsOk ==
    /\ \A i \in 1..Len(trace) :
         trace[i].ev = "return" =>
             (trace[i].out = "Ok(false)" <=>
                 ~ \E j \in 1..(i - 1) :
                       /\ trace[j].ev = "endpoint"
                       /\ trace[j].r \in Subtree(trace[i].r))
    /\ \A i \in 1..Len(trace) :
         /\ trace[i].ev = "return"
         /\ trace[i].out = "Ok(false)"
         /\ trace[i].r \in Range(TopLevel)
         => IF i < Len(trace)
            THEN /\ Pos[trace[i].r] < Len(DocumentOrder)
                 /\ IsTopEnter(trace[i + 1])
                 /\ \E k \in 1..(Len(TopLevel) - 1) :
                      trace[i].r = TopLevel[k] /\ trace[i + 1].r = TopLevel[k + 1]
            ELSE /\ pc \in {"returned", "dispatch", "enter", "done"}
                 /\ pc = "enter" => Len(stack) = 1
                 /\ pc = "done" => trace[i].r = TopLevel[Len(TopLevel)]
    /\ pc = "done" /\ EndpointCalls = <<>> => result = "Ok" /\ error = NoError

\* Handlers were checked in every router and in the plugin, none was
\* handled, and the dispatch ended with success.
C22_Witness ==
    /\ pc = "done"
    /\ result = "Ok"
    /\ Len(TopEnters) = Len(TopLevel)
    /\ trace[Len(trace)] = Return("p1", "Ok(false)")
    /\ \E i \in 1..Len(trace) : trace[i] = Return("r1a", "Ok(false)")
    /\ \A r \in AllRouters : \E i \in 1..Len(trace) : IsCheck(trace[i]) /\ trace[i].r = r

---------------------------------------------------------------------------
(* C24: whenever a call of an endpoint succeeds, on the first attempt or   *)
(* on the retry after the error handler continued, the after chain of the  *)
(* router is run before the router returns Ok(true): the event that        *)
(* follows a successful endpoint call is the first after hook of the       *)
(* effective stack, never the return of the router.                        *)
C24_AfterOnSuccess ==
    \A i \in 1..Len(trace) :
        /\ trace[i].ev = "endpoint"
        /\ trace[i].out = "Ok"
        /\ EffectiveAfter[trace[i].r] # <<>>
        => IF i = Len(trace)
           THEN pc = "after"
           ELSE /\ trace[i + 1].ev = "after"
                /\ trace[i + 1].r = trace[i].r
                /\ trace[i + 1].id = EffectiveAfter[trace[i].r][1]

---------------------------------------------------------------------------
(* C27: a router called with the inherited stack P and owning the stack C  *)
(* works with P's before hooks followed by C's and P's after hooks         *)
(* followed by C's; a sub-router inherits that concatenated stack; and     *)
(* each chain runs front to back: the before hooks run ahead of a checked  *)
(* handler, and the after hooks run up to the last one, are the hooks of   *)
(* the dispatcher, then of each router on the way down, in that order.     *)
C27_Inherited(k) ==
    IF k = 1 THEN MiddlewareStack("d") ELSE stack[k - 1].middlewares

C27_StackConcat ==
    /\ \A k \in 1..Len(stack) :
         LET P == C27_Inherited(k)
             C == MiddlewareStack(stack[k].r)
             m == stack[k].middlewares
         IN IF k = Len(stack) /\ pc = "enter"
            THEN m = P
            ELSE /\ m.before = P.before \o C.before
                 /\ m.after = P.after \o C.after
                 /\ m.before = EffectiveBefore[stack[k].r]
                 /\ m.after = EffectiveAfter[stack[k].r]
    /\ \A i \in 1..Len(trace) :
         IsCheck(trace[i]) =>
             LET eff == EffectiveBefore[trace[i].r] IN
             /\ i > Len(eff)
             /\ \A n \in 1..Len(eff) :
                  LET e == trace[i - Len(eff) + n - 1] IN
                  e.ev = "before" /\ e.id = eff[n] /\ e.r = trace[i].r
    /\ \A i \in 1..Len(trace) :
         LET eff == EffectiveAfter[trace[i].r] IN
         /\ trace[i].ev = "after"
         /\ eff # <<>>
         /\ trace[i].id = eff[Len(eff)]
         => /\ i > Len(eff)
            /\ trace[i - Len(eff)].ev = "endpoint"
            /\ \A n \in 1..Len(eff) :
                 LET e == trace[i - Len(eff) + n] IN
                 e.ev = "after" /\ e.id = eff[n] /\ e.r = trace[i].r

\* The sub-router r1a, called by r1 which the dispatcher called, ran its
\* whole after chain: the hooks of the dispatcher, of r1 and of r1a.
C27_Witness ==
    /\ Len(trace) > 3
    /\ trace[Len(trace)] = Return("r1a", "Ok(true)")
    /\ trace[Len(trace) - 1].ev = "after"
    /\ trace[Len(trace) - 1].id = "r1a.after"
    /\ trace[Len(trace) - 2].id = "r1.after"
    /\ trace[Len(trace) - 3].id = "d.after"
    /\ Len(stack) = 1
    /\ Top.middlewares.before = <<"d.before", "r1.before">>

---------------------------------------------------------------------------
(* C28: when a handler matches, the injector its endpoint is called with   *)
(* holds the context, the client, the update and the global values, then   *)
(* the values the matched filter injected, and the payload of the update's *)
(* kind (the message of a new or edited message, the deletion, the         *)
(* callback query, the inline query, the inline send, the raw update), so  *)
(* that an endpoint whose parameter is the payload type is called.         *)
C28_Payload(kind) ==
    CASE kind = "NewMessage" -> "Message"
      [] kind = "MessageEdited" -> "Message"
      [] kind = "MessageDeleted" -> "MessageDeletion"
      [] kind = "CallbackQuery" -> "CallbackQuery"
      [] kind = "InlineQuery" -> "InlineQuery"
      [] kind = "InlineSend" -> "InlineSend"
      [] kind = "Raw" -> "Raw"

C28_IsMatchStep == pc = "checked" /\ pc' = "endpoint"

C28_PayloadInjected ==
    [][C28_IsMatchStep =>
         LET pt == C28_Payload(update.kind) IN
         /\ Queue(inj', "Context") = <<"context">>
         /\ Queue(inj', "Client") = <<"client">>
         /\ Queue(inj', "Update") = <<"update">>
         /\ \A t \in DOMAIN injector :
              SubSeq(Queue(inj', t), 1, Len(injector[t])) = injector[t]
         /\ \A t \in DOMAIN flow.injector :
              Queue(inj', t) = Queue(inj, t) \o flow.injector[t]
         /\ Queue(inj', pt) = <<"payload">>
         /\ Handle(<<pt>>, inj', "Ok").called
         /\ Handle(<<"Update", pt, "Client">>, inj', "Ok").called
         /\ \A k \in UpdateType :
              LET u == [kind |-> k, sender |-> "none"] IN
              Handle(<<C28_Payload(k)>>, EndpointInjector(inj, flow, u), "Ok").called
      ]_vars

\* A callback query matched a handler whose filter injected a value: the
\* endpoint's injector holds the global values, the filter's and the query.
C28_Witness ==
    /\ pc = "endpoint"
    /\ update.kind = "CallbackQuery"
    /\ Queue(inj, "CallbackQuery") = <<"payload">>
    /\ Queue(inj, "Foo") = <<"g1", "g2", "filter">>
    /\ Queue(inj, "Update") = <<"update">>

---------------------------------------------------------------------------
(* C29: Handler::check returns Break, and does not call the filter, when   *)
(* the kind of the update differs from the handler's guard; when the kind  *)
(* is the guard's it returns Continue with no value if the handler has no  *)
(* filter, and otherwise calls the filter and returns exactly its flow.    *)
C29_HandlerCheck ==
    pc = "handler_check" =>
        LET e == trace[1] IN
        IF handler.update_type # update.kind
        THEN flow = break_now /\ e.calls = <<>>
        ELSE IF ~handler.filter
             THEN flow = continue_now /\ e.calls = <<>>
             ELSE flow = e.filter_flow /\ e.calls = <<"filter">>

\* A handler of callback queries was checked on a new message and its
\* filter, which would have continued, was not called.
C29_Witness ==
    /\ pc = "handler_check"
    /\ handler.update_type = "CallbackQuery"
    /\ handler.filter
    /\ update.kind = "NewMessage"
    /\ trace[1].filter_flow = continue_with("Foo", "filter")
    /\ flow = break_now
    /\ trace[1].calls = <<>>

---------------------------------------------------------------------------
(* C30: Injector::update of type T replaces the oldest value of T's queue  *)
(* by f applied to it, at the front of the queue, and leaves every other   *)
(* value where it was; when the injector holds no value of type T it       *)
(* returns the missing-dependency error and leaves the injector unchanged. *)
C30_IsUpdateStep ==
    /\ Len(trace') = Len(trace) + 1
    /\ trace'[Len(trace')].op = "update"

C30_UpdateFrame ==
    [][C30_IsUpdateStep =>
         LET e == trace'[Len(trace')]
             q == Queue(inj, e.t)
         IN IF q = <<>>
            THEN e.res = "Err" /\ inj' = inj
            ELSE /\ e.res = "Ok"
                 /\ inj'[e.t] = <<F(Head(q))>> \o Tail(q)
                 /\ DOMAIN inj' = DOMAIN inj
                 /\ \A t \in DOMAIN inj : t # e.t => inj'[t] = inj[t]
      ]_vars

---------------------------------------------------------------------------
(* C23: wait_for(filter, None) sleeps the default 30 seconds and, when the *)
(* sleep ends first or the receiver yields no update, returns a timeout    *)
(* error instead of failing; an update on which the filter breaks is       *)
(* skipped and the first update on which it continues is returned.         *)
C23_WaitFor ==
    (pc \in {"wait_for", "waited", "panicked"} /\ trace[1].op = "wait_for") =>
        LET timeout == trace[1].timeout
            n == Len(trace)
        IN
        /\ \A i \in 2..n :
             trace[i].sleep = IF timeout.some THEN timeout.secs ELSE 30
        /\ \A i \in 2..(n - 1) :
             trace[i].op = "recv" /\ trace[i].flow.action = "Break"
        /\ n > 1 =>
             CASE trace[n].op = "recv" /\ trace[n].flow.action = "Continue" ->
                    pc = "waited" /\ result = "Ok" /\ update = trace[n].update
               [] trace[n].op = "recv" /\ trace[n].flow.action = "Break" ->
                    pc = "wait_for" /\ result = "none"
               [] OTHER ->
                    /\ pc = "waited"
                    /\ result = "Err"
                    /\ error.kind = "Timeout"

---------------------------------------------------------------------------
(* C26: the Command filter looks the username up at most once: over the    *)
(* checks of the filter and of its clone, in any order, get_me is called   *)
(* only during the first check, the later checks use the username of the   *)
(* cell, and the username of the cell never changes once it is set.        *)
\* A lookup that was answered (a failed one panics and ends its check).
C26_IsGetMe(e) == e.op = "get_me" /\ e.me # <<"Err">>

C26_LookupOnce ==
    pc = "shared" =>
        /\ Len(SelectSeq(trace, C26_IsGetMe)) <= 1
        /\ \A i \in 1..Len(trace) :
             C26_IsGetMe(trace[i]) =>
                 \A j \in 1..(i - 1) : trace[j].op # "checked"
        /\ \A i, j \in 1..Len(trace) :
             /\ i < j
             /\ trace[i].op = "checked"
             /\ trace[j].op = "checked"
             /\ trace[i].username # <<"None">>
             => trace[j].username = trace[i].username

---------------------------------------------------------------------------
(* C21: when the dispatch of an update returns an error, the error is      *)
(* reported exactly once, to the global error handler if the client has    *)
(* one and to the log otherwise; only that update is lost; and the loop    *)
(* goes on: every later update is fetched and its dispatch runs to its     *)
(* end.                                                                    *)
C21_ReportsOf(i) == {k \in 1..Len(reports) : reports[k].task = i}

C21_Failed(i) == i <= Len(tasks) /\ tasks[i].out \in {"Err", "Missing"}

C21_Reported ==
    \A i \in 1..Len(tasks) :
        LET n == Cardinality(C21_ReportsOf(i)) IN
        /\ n <= 1
        /\ tasks[i].pc # "finished" => n = 0
        /\ tasks[i].pc = "finished" => n = IF C21_Failed(i) THEN 1 ELSE 0
        /\ \A k \in C21_ReportsOf(i) :
             reports[k].to = IF global_err_handler THEN "err_handler" ELSE "log"

C21_AllDone ==
    /\ Len(tasks) = MaxUpdates
    /\ \A j \in 1..MaxUpdates : tasks[j].pc \in {"finished", "panicked"}

C21_ErrorReportedOnce ==
    /\ []C21_Reported
    /\ \A i \in 1..MaxUpdates :
         C21_Failed(i) ~> (C21_AllDone /\ Cardinality(C21_ReportsOf(i)) = 1)

\* The dispatch of the first update failed and was reported to the global
\* error handler; the second update was fetched and handled all the same.
C21_Witness ==
    /\ C21_AllDone
    /\ C21_Failed(1)
    /\ global_err_handler
    /\ \E k \in 1..Len(reports) : reports[k] = [task |-> 1, to |-> "err_handler"]
    /\ tasks[2].out = "Ok"
    /\ tasks[2].log # <<>>
    /\ tasks[2].log[Len(tasks[2].log)].op = "endpoint"

---------------------------------------------------------------------------
(* C25: the dispatches of two updates are isolated.  Each task works on    *)
(* the injector of its own dispatcher clone and on its own per-update      *)
(* injector: whatever the interleaving, the injector of a task holds what  *)
(* the task alone would have left in it, a step of one task changes        *)
(* nothing of another task, and the global injector is never changed.      *)
\* The per-update injector after the calls of log, made by a task alone.
RECURSIVE C25_Alone(_, _, _)
C25_Alone(global, upd, log) ==
    IF log = <<>>
    THEN EmptyInjector
    ELSE LET e == log[Len(log)]
             before == C25_Alone(global, upd, SubSeq(log, 1, Len(log) - 1))
         IN CASE e.op = "build" -> BuildInjector(global)
              [] e.op = "match" -> EndpointInjector(before, e.flow, upd)
              [] e.op = "endpoint" -> Handle(e.params, before, e.body).inj

C25_OwnInjector ==
    \A i \in 1..Len(tasks) :
        /\ tasks[i].dp = injector
        /\ tasks[i].inj = C25_Alone(injector, tasks[i].update, tasks[i].log)

C25_Frame ==
    /\ injector' = injector
    /\ \A i \in 1..Len(tasks) :
         \/ tasks'[i] = tasks[i]
         \/ \A j \in 1..Len(tasks) : j # i => tasks'[j] = tasks[j]

---------------------------------------------------------------------------
(* C31: when f and g both continue, f.and(g) returns Continue and its      *)
(* injector holds, for every type, the values f injected followed by the   *)
(* values g injected, so that a take of a type both injected returns the   *)
(* value of f first.                                                       *)
C31_AndMerges ==
    (pc = "filter" /\ trace[1].filter.op = "and") =>
        LET first == FilterCheck(trace[1].filter.first, trace[1].env).flow
            second == FilterCheck(trace[1].filter.second, trace[1].env).flow
        IN (first.action = "Continue" /\ second.action = "Continue") =>
            /\ flow.action = "Continue"
            /\ \A t \in Types :
                 Queue(flow.injector, t)
                     = Queue(first.injector, t) \o Queue(second.injector, t)

---------------------------------------------------------------------------
(* C33: parent.router(closure) flattens the router the closure returns     *)
(* into the parent: the handlers of the parent are its former handlers     *)
(* followed by the nested router's, in their order; the middleware stack   *)
(* and the sub-routers of the parent are unchanged, and those of the       *)
(* nested router are not carried over.                                     *)
C33_Flattened ==
    pc = "router" =>
        LET e == trace[1] IN
        /\ e.result.handlers = e.parent.handlers \o e.nested.handlers
        /\ e.result.middlewares = e.parent.middlewares
        /\ e.result.routers = e.parent.routers

\* A parent with one handler, no middleware and no sub-router took in a
\* nested router with two handlers, a middleware stack and a sub-router.
C33_Witness ==
    /\ pc = "router"
    /\ trace[1].parent = RouterHandler(RouterDefault, "h3")
    /\ trace[1].nested.handlers = <<"h1", "h2">>
    /\ trace[1].nested.middlewares.before = <<"m.before">>
    /\ trace[1].nested.routers = <<"sub">>
    /\ trace[1].result.handlers = <<"h3", "h1", "h2">>
    /\ trace[1].result.middlewares = RouterDefault.middlewares
    /\ trace[1].result.routers = <<>>

---------------------------------------------------------------------------
(* C34: the parameters of an endpoint are taken from the injector one by   *)
(* one in the order they are declared, and when the type of a later        *)
(* parameter is missing the values taken for the earlier ones are not put  *)
(* back: after the failed call the injector lacks them, and it is this     *)
(* injector, extended by what the error handler injected, that the retry   *)
(* takes from.                                                             *)
C34_IsFailedCall ==
    /\ pc = "endpoint"
    /\ Len(trace') > Len(trace)
    /\ trace'[Len(trace) + 1].ev = "endpoint"
    /\ trace'[Len(trace) + 1].out = "Missing"

C34_IsRetry == pc = "err_handler" /\ pc' = "retry"

C34_NotPutBack ==
    [][/\ C34_IsFailedCall =>
            LET params == handler.endpoint
                missing == {k \in 1..Len(params) : Queue(inj, params[k]) = <<>>}
                first == CHOOSE k \in missing : \A m \in missing : k <= m
            IN /\ missing # {}
               /\ DOMAIN inj' = DOMAIN inj
               /\ \A t \in DOMAIN inj :
                    inj'[t] = IF \E j \in 1..(first - 1) : params[j] = t
                              THEN Tail(inj[t]) ELSE inj[t]
       /\ C34_IsRetry =>
            \A t \in DOMAIN inj :
                SubSeq(Queue(inj', t), 1, Len(inj[t])) = inj[t]
      ]_vars

\* An endpoint fn(Update, Foo) was called without a Foo in the injector:
\* the update was taken and is gone when the retry starts.
C34_Witness ==
    /\ pc = "retry"
    /\ handler.endpoint = <<"Update", "Foo">>
    /\ trace[Len(trace) - 1].ev = "endpoint"
    /\ trace[Len(trace) - 1].out = "Missing"
    /\ Queue(inj, "Update") = <<>>
    /\ Queue(inj, "Context") = <<"context">>

---------------------------------------------------------------------------
(* C37: a handler whose guard and filter continue but which has no         *)
(* endpoint does not end the traversal: the router goes on to its next     *)
(* handler, or to its sub-routers and to Ok(false) when none is left, and  *)
(* the values its filter injected are not added to the injector of the     *)
(* update.                                                                 *)
C37_IsSkip ==
    pc = "checked" /\ flow.action = "Continue" /\ handler.endpoint = NoEndpoint

C37_NoEndpointSkipped ==
    [][C37_IsSkip =>
         /\ pc' = "handlers"
         /\ inj' = inj
         /\ stack' = stack
         /\ trace' = trace
         /\ ret' = ret
         /\ result' = result
      ]_vars

\* The last handler of a router matched with a filter that injected a
\* value, and it has no endpoint: the loop is about to go on without it.
C37_Witness ==
    /\ C37_IsSkip
    /\ Top.h = NumHandlers
    /\ handler.filter
    /\ flow.injector # EmptyInjector
    /\ inj = BuildInjector(injector)

---------------------------------------------------------------------------
(* C39: in every dispatch the context of the update subscribes to the      *)
(* broadcast channel before the update is sent, so the send has a receiver *)
(* and does not fail; the update is sent exactly once, before the          *)
(* self-update filter, so an update dropped as the client's own was        *)
(* broadcast all the same.                                                 *)
C39_Broadcast ==
    /\ pc = "start" => upd_sender.sent = <<>>
    /\ pc # "start" =>
         /\ upd_sender.sent = <<update.kind>>
         /\ upd_sender.receivers >= 1
    /\ pc = "self_filter" => result = "none" /\ cache = {}
    /\ (pc = "done" /\ FromSelfDropped(update, allow_from_self)) =>
         /\ result = "Ok"
         /\ trace = <<>>
         /\ upd_sender.sent = <<update.kind>>

\* A new message of the client's own account was dropped after it was
\* broadcast.
C39_Witness ==
    /\ pc = "done"
    /\ update = [kind |-> "NewMessage", sender |-> "self"]
    /\ ~allow_from_self
    /\ trace = <<>>
    /\ result = "Ok"
    /\ upd_sender = [receivers |-> 1, sent |-> <<"NewMessage">>]

---------------------------------------------------------------------------
(* C35: the before-hooks are run once for every handler the router visits: *)
(* when handler k is the first one whose endpoint is called, the chain has *)
(* been run exactly k times, and what the hooks inserted into the injector *)
(* of the update in each of these runs is all there, in the order of the   *)
(* runs.                                                                   *)
C35_IsBefore(e) == e.op = "before"

C35_Inserts(m) == mwKind[m].inserts

RECURSIVE C35_Accumulated(_)
C35_Accumulated(runs) ==
    IF runs = <<>>
    THEN <<>>
    ELSE SelectSeq(Head(runs).run, C35_Inserts) \o C35_Accumulated(Tail(runs))

C35_Runs == SelectSeq(trace, C35_IsBefore)

C35_IsCall ==
    /\ pc = "mw_returned"
    /\ trace # <<>>
    /\ trace[Len(trace)].op = "endpoint"

C35_BeforePerHandler ==
    /\ pc \in {"mw_handlers", "mw_check", "mw_checked"} =>
         /\ Len(C35_Runs) = stack[1].h
         /\ Queue(inj, "Bar") = C35_Accumulated(C35_Runs)
    /\ C35_IsCall =>
         /\ Len(C35_Runs) = trace[Len(trace)].h
         /\ \A n \in 1..Len(C35_Runs) : C35_Runs[n].h = n
         /\ Queue(trace[Len(trace)].injector, "Bar") = C35_Accumulated(C35_Runs)

\* The second handler is the first to match and both hooks inserted a value
\* in each of the two runs.
C35_Witness ==
    /\ C35_IsCall
    /\ trace[Len(trace)].h = 2
    /\ Queue(trace[Len(trace)].injector, "Bar") = <<"m1", "m2", "m1", "m2">>

---------------------------------------------------------------------------
(* C36: handle_before returns the flow of the last before-hook it called:  *)
(* when the hooks continue and inject values through the flows they        *)
(* return, only the values of the last hook are moved into the flow of the *)
(* handler, behind those of its filter, and reach the injector the         *)
(* endpoint is called on.                                                  *)
C36_LastHook == MwBefore[Len(MwBefore)]

C36_HookValues ==
    IF mwKind[C36_LastHook].returns = "Inject" THEN <<C36_LastHook>> ELSE <<>>

C36_FromFlows(q) == q \in {C36_HookValues, <<"filter">> \o C36_HookValues}

C36_LastFlowOnly ==
    /\ pc = "mw_check" => Queue(middleware_flow.injector, "Foo") = C36_HookValues
    /\ (pc = "mw_checked" /\ flow.action = "Continue") =>
         C36_FromFlows(Queue(flow.injector, "Foo"))
    /\ C35_IsCall => C36_FromFlows(Queue(trace[Len(trace)].injector, "Foo"))

\* Both hooks continued with a value; the endpoint was called on an
\* injector that holds the value of the second hook alone.
C36_Witness ==
    /\ C35_IsCall
    /\ mwKind["m1"].returns = "Inject"
    /\ mwKind["m2"].returns = "Inject"
    /\ Queue(trace[Len(trace)].injector, "Foo") = <<"m2">>
    /\ trace[Len(trace)].params = <<"Foo", "Foo">>
    /\ trace[Len(trace)].received = <<"m2">>

---------------------------------------------------------------------------
(* C38: when the filter of the matched handler injected a value of the     *)
(* type of the payload (the reply filter injects a Message on a new        *)
(* message), the value of the filter is queued ahead of the payload: the   *)
(* first parameter of that type receives the value of the filter, and the  *)
(* payload is received by a second parameter of that type only.            *)
C38_ReplyMatched ==
    /\ C35_IsCall
    /\ Queue(trace[Len(trace)].flow.injector, "Message") = <<"reply">>

C38_FilterValueFirst ==
    C38_ReplyMatched =>
        LET e == trace[Len(trace)] IN
        /\ PayloadType(update) = "Message"
        /\ Queue(e.injector, "Message") = <<"reply", "payload">>
        /\ e.params = <<"Message">> => e.received = <<"reply">>
        /\ e.params = <<"Message", "Message">> => e.received = <<"reply", "payload">>

C38_Witness ==
    /\ C38_ReplyMatched
    /\ trace[Len(trace)].params = <<"Message", "Message">>
    /\ trace[Len(trace)].received = <<"reply", "payload">>
    /\ trace[Len(trace)].out = "Ok"

---------------------------------------------------------------------------
(* Cache (cache.rs): the chats the update tasks save and look up.  The     *)
(* tasks are those Client::run spawns (client.rs 293) and may run on       *)
(* different threads of the runtime; Cache.inner is an Arc<RwLock<..>>     *)
(* they share.                                                             *)

\* How many calls of the cache a task makes.
MaxCalls == 2

\* PackedChat: the id of a chat and the rest of its identity.
ChatIds == {1, 2}

Identities == {"a", "b"}

PackedChats == [id : ChatIds, ident : Identities]

\* InnerCache::chat_exists
ChatExists(inner, chat_id) == chat_id \in DOMAIN inner

\* InnerCache::push_chat: entry(chat.id).or_insert(chat)
PushChat(inner, chat) ==
    [x \in DOMAIN inner \cup {chat.id} |->
        IF x \in DOMAIN inner THEN inner[x] ELSE chat.ident]

\* Mutant: the chat saved replaces the one known for its id.
SaveChat_Overwrites(inner, exists, chat) ==
    [x \in DOMAIN inner \cup {chat.id} |->
        IF x = chat.id THEN chat.ident ELSE inner[x]]

\* cache.rs 87-91: the chat is pushed if chat_exists answered no.
SaveChat(inner, exists, chat) == IF ~exists THEN PushChat(inner, chat) ELSE inner

\* RwLock::try_read: an error while a writer holds the lock.
TryRead(l) == IF l = "free" THEN "Ok" ELSE "Err"

\* cache.rs 80: chats.get(&chat_id).cloned()
Get(inner, chat_id) ==
    IF chat_id \in DOMAIN inner THEN <<"Some", inner[chat_id]>> ELSE <<"None">>

InitCache ==
    /\ update = [kind |-> "Raw", sender |-> "none"]
    /\ allow_from_self = FALSE
    /\ mwKind = [b \in AllBeforeHooks |-> "Continue"]
    /\ injector = EmptyInjector
    /\ cache = {}
    /\ upd_sender = [receivers |-> 0, sent |-> <<>>]
    /\ pc = "cache"
    /\ next_router = 0
    /\ stack = <<>>
    /\ inj = EmptyInjector
    /\ middleware_flow = NoFlow
    /\ flow = NoFlow
    /\ handler = NoHandler
    /\ ret = "none"
    /\ error = NoError
    /\ result = "none"
    /\ trace = <<>>
    /\ username = <<"None">>
    /\ lock = "free"
    /\ checker = [k \in Checkers |-> "idle"]
    /\ tasks = <<>>
    /\ reports = <<>>
    /\ global_err_handler = FALSE
    /\ chats = NoChats
    /\ rwlock = "free"
    /\ callers = [t \in CacheTasks |-> NoCall]
    /\ cache_log = <<>>

\* What the cache actions leave alone.
dispatchVars ==
    <<update, allow_from_self, mwKind, injector, cache, upd_sender, pc,
      next_router, stack, inj, middleware_flow, flow, handler, ret, error,
      result, trace>>

\* cache.rs 85: save_chat of task t gets the lock for writing; write().await
\* completes once nobody holds it.
SaveChatWrite(t) ==
    /\ pc = "cache"
    /\ callers[t].at = "idle"
    /\ callers[t].calls < MaxCalls
    /\ rwlock = "free"
    /\ rwlock' = t
    /\ \E chat \in PackedChats :
         callers' = [callers EXCEPT ![t].at = "save_chat", ![t].chat = chat]
    /\ UNCHANGED <<chats, cache_log>>
    /\ UNCHANGED <<dispatchVars, cmdVars, runVars>>

\* cache.rs 87: chat_exists, under the write guard.
SaveChatExists(t) ==
    /\ pc = "cache"
    /\ callers[t].at = "save_chat"
    /\ callers' = [callers EXCEPT ![t].at = "push_chat",
                                  ![t].exists = ChatExists(chats, callers[t].chat.id)]
    /\ UNCHANGED <<chats, rwlock, cache_log>>
    /\ UNCHANGED <<dispatchVars, cmdVars, runVars>>

\* cache.rs 87-94: the chat is pushed if it did not exist, the guard is
\* dropped and save_chat returns Ok(()).
SaveChatPush(t) ==
    /\ pc = "cache"
    /\ callers[t].at = "push_chat"
    /\ chats' = SaveChat(chats, callers[t].exists, callers[t].chat)
    /\ rwlock' = "free"
    /\ cache_log' = Append(cache_log, [op |-> "save_chat", by |-> t,
                                       chat |-> callers[t].chat,
                                       known |-> ChatExists(chats, callers[t].chat.id),
                                       changed |-> chats' # chats,
                                       got |-> <<"Ok">>])
    /\ callers' = [callers EXCEPT ![t] = [NoCall EXCEPT !.calls = callers[t].calls + 1]]
    /\ UNCHANGED <<dispatchVars, cmdVars, runVars>>

\* cache.rs 77-81: get_chat of task t; expect panics when try_read fails.
GetChat(t) ==
    /\ pc = "cache"
    /\ callers[t].at = "idle"
    /\ callers[t].calls < MaxCalls
    /\ \E chat_id \in ChatIds :
         LET got == IF TryRead(rwlock) = "Ok" THEN Get(chats, chat_id) ELSE <<"panic">>
         IN /\ cache_log' = Append(cache_log, [op |-> "get_chat", by |-> t,
                                               chat |-> [id |-> chat_id, ident |-> ""],
                                               known |-> ChatExists(chats, chat_id),
                                               changed |-> FALSE,
                                               got |-> got])
            /\ callers' = [callers EXCEPT
                              ![t].at = IF got = <<"panic">> THEN "panicked" ELSE "idle",
                              ![t].calls = @ + 1]
    /\ UNCHANGED <<chats, rwlock>>
    /\ UNCHANGED <<dispatchVars, cmdVars, runVars>>

NextCache ==
    \/ \E t \in CacheTasks : SaveChatWrite(t)
    \/ \E t \in CacheTasks : SaveChatExists(t)
    \/ \E t \in CacheTasks : SaveChatPush(t)
    \/ \E t \in CacheTasks : GetChat(t)

SpecCache == InitCache /\ [][NextCache]_vars

---------------------------------------------------------------------------
(* C32: save_chat is a first-write-wins upsert under every interleaving of *)
(* the tasks: the identity stored for an id is the one of the first        *)
(* save_chat of that id, it never changes afterwards, and a save_chat of   *)
(* an id already known leaves the cache as it was.                         *)
C32_Saves(chat_id) ==
    {n \in 1..Len(cache_log) :
        cache_log[n].op = "save_chat" /\ cache_log[n].chat.id = chat_id}

C32_First(chat_id) ==
    CHOOSE n \in C32_Saves(chat_id) : \A m \in C32_Saves(chat_id) : n <= m

C32_FirstWriteWins ==
    pc = "cache" =>
        /\ \A chat_id \in ChatIds :
             IF C32_Saves(chat_id) = {}
             THEN chat_id \notin DOMAIN chats
             ELSE /\ chat_id \in DOMAIN chats
                  /\ chats[chat_id] = cache_log[C32_First(chat_id)].chat.ident
        /\ \A n \in 1..Len(cache_log) :
             cache_log[n].op = "save_chat" =>
                 /\ cache_log[n].known => ~cache_log[n].changed
                 /\ cache_log[n].known <=> n # C32_First(cache_log[n].chat.id)

\* Two tasks saved the same id with different identities, a second id was
\* saved in between, and the cache holds the identity saved first.
C32_Witness ==
    /\ pc = "cache"
    /\ Len(cache_log) >= 3
    /\ cache_log[1].op = "save_chat"
    /\ cache_log[1].chat = [id |-> 1, ident |-> "a"]
    /\ cache_log[Len(cache_log)].op = "save_chat"
    /\ cache_log[Len(cache_log)].chat = [id |-> 1, ident |-> "b"]
    /\ cache_log[Len(cache_log)].by # cache_log[1].by
    /\ cache_log[Len(cache_log)].known
    /\ chats[1] = "a"
    /\ 2 \in DOMAIN chats

---------------------------------------------------------------------------
(* C40: get_chat returns the identity saved for the id, or none, and does  *)
(* not fail, whatever save_chat calls of other tasks it is interleaved     *)
(* with.                                                                   *)
C40_GetChatAnswers ==
    pc = "cache" =>
        \A n \in 1..Len(cache_log) :
            cache_log[n].op = "get_chat" =>
                /\ cache_log[n].got # <<"panic">>
                /\ cache_log[n].known <=> cache_log[n].got[1] = "Some"

====
